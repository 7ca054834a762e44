---------------------- MODULE AdminDashboard_proofs ----------------------
(***************************************************************************)
(* Proofs about AdminDashboard, its panels and the cache of ApiService, for *)
(* every number of submissions, attempts, mishaps and writes of others.     *)
(***************************************************************************)
EXTENDS AdminDashboard, FiniteSetTheorems, TLAPS

Panels == {"team", "coach", "season", "stadium", "player"}
Ops == {"create", "update", "delete"}
Stages == {"sent", "ok", "refused", "lost", "done"}
WriteRecord == [entity : Panels \cup {"none"}, op : Ops \cup {"none"}, key : Keys \cup {NoKey},
                stage : Stages \cup {"unused"}, data : Data, tries : Nat, applied : Nat, mine : BOOLEAN]

\* A write that was clicked, when the backend's data is d and the tab t is open.
ClickedIn(w, d, t) ==
  /\ w.entity \in Panels /\ w.op \in Ops /\ w.key \in Keys /\ Entity(w.key) = w.entity
  /\ w.stage \in Stages
  /\ w.data <= d[w.entity]
  /\ w.applied <= w.tries /\ w.tries <= Service(w.entity).attempts[w.op]
  /\ w.stage = "sent" => w.applied < w.tries
  /\ w.mine => w.entity = t

\* A write is counted before the backend applies it, it brings back data the
\* backend has, and it belongs to the panel that is mounted as long as that one
\* may act on its answer.
WritesOK ==
  /\ writes \in [Writes -> WriteRecord]
  /\ \A i \in Writes : writes[i] = NoWrite \/ ClickedIn(writes[i], db, tab)

\* ReadsOwnWrites for the answers on their way too, which will fill the cache, and
\* for the writes that were answered, which the backend had applied.
Fresh ==
  /\ ReadsOwnWrites
  /\ \A k \in DOMAIN pending \ raced :
       pending[k].stage = "ok" => pending[k].data >= own[Entity(k)]
  /\ \A e \in Entities : own[e] <= db[e]

CacheInv == CacheTypeOK /\ Fresh

ViewOK ==
  /\ tab \in Entities
  /\ list \in Data \cup {Miss}
  /\ options \subseteq Entities
  /\ loading \in BOOLEAN
  /\ form \in [open : BOOLEAN, editing : BOOLEAN, filled : BOOLEAN]
  /\ filter \in Filters /\ pageNo \in {1, 2}
  /\ waits \subseteq Keys

\* What the spinner stands for: rows of the mounted panel, or a submission of
\* PlayerManagement, which is not a deletion.
RowsAwaited == \E k \in waits : Entity(k) = tab /\ k \in DOMAIN pending
Submitting(i) == writes[i].mine /\ writes[i].op # "delete" /\ writes[i].stage # "done"
SpinnerOK ==
  /\ \A k \in waits : Entity(k) = "player" => tab = "player"
  /\ loading => RowsAwaited \/ (tab = "player" /\ \E i \in Writes : Submitting(i))

DashboardInv == CacheInv /\ WritesOK /\ ViewOK /\ SpinnerOK

-----------------------------------------------------------------------------
(* The keys of the panels *)

PlayerKeys == {k \in Keys : Entity(k) = "player"}

LEMMA Clears ==
  /\ Service("team").clears = {"all-teams"}
  /\ Service("coach").clears = {"coaches-filter"}
  /\ Service("stadium").clears = {"stadiums-all"}
  /\ Service("season").clears = {"seasons-filter"}
  /\ Service("player").clears = {"players-paginated", "players-regular", "players-filter"}
BY DEF Service, TeamService, CoachService, StadiumService, SeasonService, PlayerService

LEMMA AttemptsPositive ==
  ASSUME NEW e \in Panels, NEW o \in Ops
  PROVE  Service(e).attempts[o] \in Nat \ {0}
BY PanelAssumption DEF Service, TeamService, CoachService, StadiumService, SeasonService,
     PlayerService, Uploads, Panels, Ops

\* The prefix of a key tells its entity.
LEMMA KeyEntity ==
  ASSUME NEW k \in Keys
  PROVE  /\ Entity(k) \in Panels /\ Entity(k) \in Entities
         /\ k[1] \in Service(Entity(k)).clears
         /\ k[1] = "all-teams" => Entity(k) = "team"
         /\ k[1] = "coaches-filter" => Entity(k) = "coach"
         /\ k[1] = "stadiums-all" => Entity(k) = "stadium"
         /\ k[1] = "seasons-filter" => Entity(k) = "season"
         /\ k[1] \in Service("player").clears => Entity(k) = "player"
<1>1. Entity(k) \in Panels /\ k[1] \in Service(Entity(k)).clears
  BY PanelAssumption DEF Panels
<1>2. Entity(k) \in Entities
  BY DEF Entity, Entities
<1> QED
  BY <1>1, <1>2, Clears DEF Panels

LEMMA ListKeys ==
  /\ AllTeams \in Keys /\ Entity(AllTeams) = "team"
  /\ Stadiums \in Keys /\ Entity(Stadiums) = "stadium"
  /\ \A f \in Filters : /\ Coaches(f) \in Keys /\ Entity(Coaches(f)) = "coach"
                        /\ Seasons(f) \in Keys /\ Entity(Seasons(f)) = "season"
<1>1. /\ AllTeams \in Keys /\ Stadiums \in Keys
      /\ \A f \in Filters : Coaches(f) \in Keys /\ Seasons(f) \in Keys
  BY PanelAssumption
<1>2. /\ AllTeams[1] = "all-teams" /\ Stadiums[1] = "stadiums-all"
      /\ \A f \in Filters : Coaches(f)[1] = "coaches-filter" /\ Seasons(f)[1] = "seasons-filter"
  BY DEF AllTeams, Stadiums, Coaches, Seasons
<1> QED
  BY <1>1, <1>2, KeyEntity

LEMMA NoKeyFalls == Fallback(NoKey) = NoKey /\ NoKey \notin Keys
<1>1. NoKey[1] = "none"
  BY DEF NoKey
<1>2. NoKey \notin Keys
  BY <1>1, KeyEntity, Clears DEF Panels
<1> QED
  BY <1>1, <1>2 DEF Fallback

LEMMA PlayerFalls ==
  ASSUME NEW k \in PlayerKeys
  PROVE  /\ Fallback(k) \in PlayerKeys \cup {NoKey}
         /\ Fallback(k) # k
         /\ k[1] = "players-paginated" => Fallback(k)[1] = "players-regular"
         /\ k[1] = "players-regular" => Fallback(k)[1] = "players-filter"
         /\ k[1] = "players-filter" => Fallback(k) = NoKey
<1>1. /\ k \in Keys
      /\ k[1] \in {"players-paginated", "players-regular", "players-filter"}
  BY KeyEntity, Clears DEF PlayerKeys
<1>2. /\ k[1] = "players-paginated" => Fallback(k)[1] = "players-regular"
      /\ k[1] = "players-regular" => Fallback(k)[1] = "players-filter"
      /\ k[1] = "players-filter" => Fallback(k) = NoKey
  BY DEF Fallback, Regular, Whole
<1>3. Fallback(k) \in Keys \cup {NoKey}
  BY <1>1, PanelAssumption
<1>4. Fallback(k) \in Keys => Entity(Fallback(k)) = "player"
  BY <1>1, <1>2, <1>3, KeyEntity, Clears, NoKeyFalls
<1>5. Fallback(k) # k
  BY <1>1, <1>2, NoKeyFalls
<1> QED
  BY <1>2, <1>3, <1>4, <1>5 DEF PlayerKeys

LEMMA RestsAtPlayers ==
  ASSUME NEW c, NEW k \in PlayerKeys \cup {NoKey}
  PROVE  Rest(c, k) \in PlayerKeys \cup {NoKey}
<1>1. Fallback(k) \in PlayerKeys \cup {NoKey}
  BY PlayerFalls, NoKeyFalls
<1>2. Fallback(Fallback(k)) \in PlayerKeys \cup {NoKey}
  BY <1>1, PlayerFalls, NoKeyFalls
<1> QED
  BY <1>1, <1>2 DEF Rest

\* The next attempt is not the one that failed.
LEMMA RestsElsewhere ==
  ASSUME NEW c, NEW k \in PlayerKeys
  PROVE  Rest(c, Fallback(k)) # k
<1> DEFINE f == Fallback(k)
           g == Fallback(f)
           h == Fallback(g)
<1>1. Rest(c, f) \in {f, g, h, NoKey}
  BY DEF Rest
<1>2. f \in PlayerKeys \cup {NoKey} /\ g \in PlayerKeys \cup {NoKey}
  BY PlayerFalls, NoKeyFalls
<1>3. k[1] \in {"players-paginated", "players-regular", "players-filter"} /\ k # NoKey
  BY KeyEntity, Clears, NoKeyFalls DEF PlayerKeys
<1>4. k # f
  BY PlayerFalls
<1>5. f = NoKey => g = NoKey /\ h = NoKey
  BY NoKeyFalls
<1>6. g = NoKey => h = NoKey
  BY NoKeyFalls
<1>7. f # NoKey => g # k /\ h # k
  <2> SUFFICES ASSUME f # NoKey PROVE g # k /\ h # k
    OBVIOUS
  <2> DEFINE rank(x) == CASE x[1] = "players-paginated" -> 1 [] x[1] = "players-regular" -> 2
                          [] OTHER -> 3
  <2>1. \A x \in PlayerKeys : Fallback(x) = NoKey \/ rank(Fallback(x)) > rank(x)
    <3> TAKE x \in PlayerKeys
    <3>1. x[1] \in {"players-paginated", "players-regular", "players-filter"}
      BY KeyEntity, Clears DEF PlayerKeys
    <3> QED
      BY <3>1, PlayerFalls
  <2>2. \A x : rank(x) \in Nat
    OBVIOUS
  <2> HIDE DEF rank, f, g, h
  <2>3. rank(f) > rank(k)
    BY <2>1 DEF f
  <2>4. g = NoKey \/ rank(g) > rank(f)
    BY <2>1, <1>2 DEF g
  <2>5. g # k
    BY <2>2, <2>3, <2>4, <1>3
  <2>6. CASE g = NoKey
    BY <2>5, <2>6, <1>3, <1>6
  <2>7. CASE g # NoKey
    <3>1. h = NoKey \/ rank(h) > rank(g)
      BY <2>1, <2>7, <1>2 DEF h
    <3> QED
      BY <3>1, <2>2, <2>3, <2>4, <2>5, <2>7, <1>3
  <2> QED
    BY <2>6, <2>7
<1> QED
  BY <1>1, <1>3, <1>4, <1>5, <1>7

LEMMA PlayerLists ==
  /\ \A p \in {1, 2}, f \in Filters : Paginated(p, f) \in PlayerKeys
  /\ Probe \in PlayerKeys /\ Regular(Probe) \in PlayerKeys /\ Whole("all") \in PlayerKeys
  /\ \A c : ProbeRest(c) \in PlayerKeys
<1>1. \A p \in {1, 2}, f \in Filters : Paginated(p, f) \in PlayerKeys
  <2> TAKE p \in {1, 2}, f \in Filters
  <2>1. Paginated(p, f) \in Keys
    BY PanelAssumption
  <2>2. Paginated(p, f)[1] = "players-paginated"
    BY DEF Paginated
  <2> QED
    BY <2>1, <2>2, KeyEntity, Clears DEF PlayerKeys
<1>2. Probe \in PlayerKeys
  BY PanelAssumption, KeyEntity, Clears DEF PlayerKeys, Probe, Paginated
<1>3. Fallback(Probe) = Regular(Probe) /\ Regular(Probe) # NoKey
  BY DEF Fallback, Probe, Paginated, Regular, NoKey
<1>4. Regular(Probe) \in PlayerKeys
  BY <1>2, <1>3, PlayerFalls
<1>5. Fallback(Regular(Probe)) = Whole("all") /\ Whole("all") # NoKey
  BY DEF Fallback, Probe, Paginated, Regular, NoKey, Whole
<1>6. Whole("all") \in PlayerKeys
  BY <1>4, <1>5, PlayerFalls
<1> QED
  BY <1>1, <1>2, <1>4, <1>6 DEF ProbeRest

-----------------------------------------------------------------------------
(* The cache *)

LEMMA AskedIs ==
  ASSUME NEW p, NEW S
  PROVE  /\ DOMAIN Asked(p, S) = DOMAIN p \cup S
         /\ \A k \in DOMAIN p : Asked(p, S)[k] = p[k]
         /\ \A k \in S \ DOMAIN p : Asked(p, S)[k] = Sent
BY DEF Asked

LEMMA FilledIs ==
  ASSUME NEW k
  PROVE  /\ DOMAIN Filled(k) = DOMAIN cache \cup {k}
         /\ Filled(k)[k] = pending[k].data
         /\ \A x \in DOMAIN cache \ {k} : Filled(k)[x] = cache[x]
         /\ DOMAIN Released(k) = DOMAIN pending \ {k}
         /\ \A x \in DOMAIN pending \ {k} : Released(k)[x] = pending[x]
BY DEF Filled, Released

LEMMA SentIs == Sent \in Request /\ Sent.stage = "sent"
BY CacheAssumption DEF Sent, Request, Data

\* What the new requests for the keys S, none of them cached or in flight, make
\* of the requests p.
LEMMA AskedTyped ==
  ASSUME NEW p, NEW S \in SUBSET Keys, DOMAIN p \subseteq Keys,
         \A k \in DOMAIN p : p[k] \in Request
  PROVE  /\ DOMAIN Asked(p, S) \subseteq Keys
         /\ \A k \in DOMAIN Asked(p, S) : Asked(p, S)[k] \in Request
<1>1. DOMAIN Asked(p, S) = DOMAIN p \cup S
  BY AskedIs
<1>2. ASSUME NEW k \in DOMAIN Asked(p, S)
      PROVE  Asked(p, S)[k] \in Request
  <2>1. CASE k \in DOMAIN p
    <3>1. Asked(p, S)[k] = p[k]
      BY <2>1, AskedIs
    <3> QED
      BY <2>1, <3>1
  <2>2. CASE k \in S \ DOMAIN p
    <3>1. Asked(p, S)[k] = Sent
      BY <2>2 DEF Asked
    <3> QED
      BY <3>1, SentIs
  <2> QED
    BY <1>1, <2>1, <2>2
<1> QED
  BY <1>1, <1>2

LEMMA CountFinite ==
  ASSUME NEW S, IsFiniteSet(S), NEW T \in SUBSET S, NEW n \in Nat
  PROVE  n + Cardinality(T) \in Nat
<1>1. Cardinality(T) \in Nat
  BY FS_Subset, FS_CardinalityType
<1> QED
  BY <1>1

\* Asking through the cache: every key that can be awaited is in flight.
LEMMA GetsStep ==
  ASSUME CacheTypeOK, NEW c, DOMAIN c \subseteq Keys, \A k \in DOMAIN c : c[k] \in Data,
         NEW asked \in SUBSET Keys, IsFiniteSet(asked), NEW overtaken \in SUBSET Keys,
         GetWithCache(c, asked, overtaken),
         own' \in [Entities -> Data]
  PROVE  /\ CacheTypeOK'
         /\ DOMAIN pending \subseteq DOMAIN pending'
         /\ \A k \in asked : Awaited(c, k) => k \in DOMAIN pending'
<1> DEFINE sends == {k \in asked : Sendable(c, k)}
<1>1. /\ gets' = gets + Cardinality(sends) /\ cache' = c /\ pending' = Asked(pending, sends)
      /\ raced' = (raced \cup overtaken) \ sends /\ db' = db /\ full' = full /\ mishaps' = mishaps
  BY DEF GetWithCache
<1>2. sends \in SUBSET asked /\ sends \in SUBSET Keys
  OBVIOUS
<1>3. \A k \in asked : Awaited(c, k) => k \in DOMAIN pending \/ k \in sends
  BY DEF Awaited, Sendable, InFlight
<1> HIDE DEF sends
<1>4. gets' \in Nat
  BY <1>1, <1>2, CountFinite DEF CacheTypeOK
<1>5. DOMAIN pending' \subseteq Keys /\ \A k \in DOMAIN pending' : pending'[k] \in Request
  BY <1>1, <1>2, AskedTyped DEF CacheTypeOK
<1>6. CacheTypeOK'
  BY <1>1, <1>2, <1>4, <1>5 DEF CacheTypeOK
<1>7. DOMAIN pending' = DOMAIN pending \cup sends
  BY <1>1, AskedIs
<1> QED
  BY <1>3, <1>6, <1>7

\* The entries left in the cache and the answers on their way are as new as own'
\* once the keys that were overtaken are set apart.
LEMMA GetsFresh ==
  ASSUME CacheTypeOK, NEW c, NEW asked \in SUBSET Keys, NEW overtaken \in SUBSET Keys,
         GetWithCache(c, asked, overtaken),
         \A k \in DOMAIN c \ raced : c[k] >= own'[Entity(k)],
         \A k \in DOMAIN pending \ (raced \cup overtaken) :
           pending[k].stage = "ok" => pending[k].data >= own'[Entity(k)],
         \A e \in Entities : own'[e] <= db[e]
  PROVE  Fresh'
<1> DEFINE sends == {k \in asked : Sendable(c, k)}
<1>1. /\ cache' = c /\ pending' = Asked(pending, sends) /\ db' = db
      /\ raced' = (raced \cup overtaken) \ sends
  BY DEF GetWithCache
<1>2. \A k \in sends : k \notin DOMAIN c /\ k \notin DOMAIN pending
  BY DEF Sendable, Hit, InFlight
<1> HIDE DEF sends
<1>3. ReadsOwnWrites'
  BY <1>1, <1>2 DEF ReadsOwnWrites, Entity
<1>4. /\ DOMAIN pending' = DOMAIN pending \cup sends
      /\ \A k \in DOMAIN pending : pending'[k] = pending[k]
      /\ \A k \in sends : pending'[k] = Sent
  <2>1. \A k \in DOMAIN pending : Asked(pending, sends)[k] = pending[k]
    BY AskedIs
  <2>2. \A k \in sends \ DOMAIN pending : Asked(pending, sends)[k] = Sent
    BY AskedIs
  <2>3. DOMAIN Asked(pending, sends) = DOMAIN pending \cup sends
    BY AskedIs
  <2> QED
    BY <1>1, <1>2, <2>1, <2>2, <2>3
<1>5. \A k \in DOMAIN pending' \ raced' :
        pending'[k].stage = "ok" => pending'[k].data >= own'[Entity(k)]
  <2> TAKE k \in DOMAIN pending' \ raced'
  <2>1. CASE k \in sends
    BY <2>1, <1>4, SentIs
  <2>2. CASE k \notin sends
    BY <2>2, <1>1, <1>4
  <2> QED
    BY <2>1, <2>2
<1> QED
  BY <1>1, <1>3, <1>5 DEF Fresh, Entity, Entities

\* A handler that asks and clears nothing.
LEMMA AsksInv ==
  ASSUME CacheInv, NEW asked \in SUBSET Keys, IsFiniteSet(asked),
         GetWithCache(cache, asked, {}), own' = own
  PROVE  /\ CacheInv'
         /\ DOMAIN pending \subseteq DOMAIN pending'
         /\ \A k \in asked : Awaited(cache, k) => k \in DOMAIN pending'
         /\ db' = db
<1>1. /\ CacheTypeOK'
      /\ DOMAIN pending \subseteq DOMAIN pending'
      /\ \A k \in asked : Awaited(cache, k) => k \in DOMAIN pending'
  BY GetsStep DEF CacheInv, CacheTypeOK
<1>2. Fresh'
  BY GetsFresh DEF CacheInv, CacheTypeOK, Fresh, ReadsOwnWrites
<1> QED
  BY <1>1, <1>2 DEF CacheInv, GetWithCache

\* A service clears the lists of e and records its write, which the backend has
\* applied; then somebody asks.
ClearsFor(e, n) ==
  own' = [own EXCEPT ![e] = IF n > @ THEN n ELSE @]

LEMMA ClearsInv ==
  ASSUME CacheInv, NEW e \in Panels, NEW n \in Data, e \in Entities, n <= db[e],
         NEW asked \in SUBSET Keys, IsFiniteSet(asked),
         GetWithCache(Cleared(Service(e).clears), asked, Overtaken(Service(e).clears)),
         ClearsFor(e, n)
  PROVE  /\ CacheInv'
         /\ DOMAIN pending \subseteq DOMAIN pending'
         /\ \A k \in asked : Awaited(Cleared(Service(e).clears), k) => k \in DOMAIN pending'
         /\ db' = db
<1> DEFINE c == Cleared(Service(e).clears)
           over == Overtaken(Service(e).clears)
<1>1. /\ DOMAIN c \subseteq DOMAIN cache /\ \A k \in DOMAIN c : c[k] = cache[k]
      /\ \A k \in DOMAIN c : k[1] \notin Service(e).clears
  BY DEF Cleared
<1>2. over \subseteq DOMAIN pending
      /\ \A k \in DOMAIN pending \ over : k[1] \notin Service(e).clears
  BY DEF Overtaken
<1>3. /\ DOMAIN cache \subseteq Keys /\ DOMAIN pending \subseteq Keys
      /\ \A k \in DOMAIN cache : cache[k] \in Data
      /\ own \in [Entities -> Data]
  BY DEF CacheInv, CacheTypeOK
<1>4. \A k \in Keys : k[1] \notin Service(e).clears => Entity(k) # e /\ Entity(k) \in Entities
  BY KeyEntity
<1>5. /\ own' \in [Entities -> Data]
      /\ \A d \in Entities : d # e => own'[d] = own[d]
      /\ own'[e] \in {n, own[e]}
  BY <1>3 DEF ClearsFor
<1>6. GetWithCache(c, asked, over)
  OBVIOUS
<1> HIDE DEF c, over
<1>7. \A k \in DOMAIN c \ raced : c[k] >= own'[Entity(k)]
  BY <1>1, <1>3, <1>4, <1>5 DEF CacheInv, Fresh, ReadsOwnWrites
<1>8. \A k \in DOMAIN pending \ (raced \cup over) :
        pending[k].stage = "ok" => pending[k].data >= own'[Entity(k)]
  BY <1>2, <1>3, <1>4, <1>5 DEF CacheInv, Fresh
<1>9. \A d \in Entities : own'[d] <= db[d]
  BY <1>5 DEF CacheInv, Fresh
<1>10. CacheTypeOK
  BY DEF CacheInv
<1>11. DOMAIN c \subseteq Keys /\ (\A k \in DOMAIN c : c[k] \in Data) /\ over \in SUBSET Keys
  BY <1>1, <1>2, <1>3
<1>12. /\ CacheTypeOK'
       /\ DOMAIN pending \subseteq DOMAIN pending'
       /\ \A k \in asked : Awaited(c, k) => k \in DOMAIN pending'
  BY <1>5, <1>6, <1>10, <1>11, GetsStep
<1>13. Fresh'
  BY <1>6, <1>7, <1>8, <1>9, <1>10, <1>11, GetsFresh
<1> QED
  BY <1>6, <1>12, <1>13 DEF CacheInv, GetWithCache, c

LEMMA WriteRaises ==
  ASSUME CacheTypeOK, NEW e \in Entities, Write(e)
  PROVE  /\ db' \in [Entities -> Data] /\ db'[e] \in Data
         /\ \A d \in Entities : db[d] <= db'[d]
<1>1. PICK n \in 1 .. MaxData : (\A d \in Entities : db[d] < n) /\ db' = [db EXCEPT ![e] = n]
  BY DEF Write
<1> QED
  BY <1>1, CacheAssumption DEF CacheTypeOK, Data

LEMMA CacheStepInv ==
  ASSUME CacheInv, CacheStep
  PROVE  /\ CacheInv' /\ DOMAIN pending' = DOMAIN pending
         /\ \A e \in Entities : db[e] <= db'[e]
<1> USE DEF CacheInv
<1>0. CacheTypeOK /\ Fresh /\ \A k \in Keys : Entity(k) \in Entities
  BY KeyEntity
<1>1. ASSUME NEW k \in DOMAIN pending, ServeGet(k)
      PROVE  CacheInv' /\ DOMAIN pending' = DOMAIN pending /\ \A e \in Entities : db[e] <= db'[e]
  <2>1. [stage |-> "ok", data |-> db[Entity(k)]] \in Request /\ db[Entity(k)] \in Data
    BY <1>0 DEF CacheTypeOK, Request
  <2>2. CacheTypeOK'
    BY <1>0, <1>1, <2>1 DEF ServeGet, CacheTypeOK
  <2>3. Fresh'
    BY <1>0, <1>1 DEF ServeGet, CacheTypeOK, Fresh, ReadsOwnWrites, Entity, Entities
  <2> QED
    BY <1>0, <1>1, <2>2, <2>3 DEF ServeGet, CacheTypeOK, Data
<1>2. ASSUME NEW k \in DOMAIN pending, LoseGet(k)
      PROVE  CacheInv' /\ DOMAIN pending' = DOMAIN pending /\ \A e \in Entities : db[e] <= db'[e]
  <2>1. [stage |-> "lost", data |-> 0] \in Request /\ mishaps' \in 0 .. MaxMishaps
    BY <1>0, <1>2, CacheAssumption DEF CacheTypeOK, Request, LoseGet, Mishap, Data
  <2>2. CacheTypeOK'
    BY <1>0, <1>2, <2>1 DEF LoseGet, CacheTypeOK
  <2>3. Fresh'
    BY <1>0, <1>2 DEF LoseGet, CacheTypeOK, Fresh, ReadsOwnWrites, Entity, Entities
  <2> QED
    BY <1>0, <1>2, <2>2, <2>3 DEF LoseGet, CacheTypeOK, Data
<1>3. ASSUME NEW k \in DOMAIN cache, Expire(k)
      PROVE  CacheInv' /\ DOMAIN pending' = DOMAIN pending /\ \A e \in Entities : db[e] <= db'[e]
  <2>1. mishaps' \in 0 .. MaxMishaps
    BY <1>0, <1>3, CacheAssumption DEF CacheTypeOK, Expire, Mishap
  <2>2. CacheTypeOK'
    BY <1>0, <1>3, <2>1 DEF Expire, CacheTypeOK
  <2>3. Fresh'
    BY <1>0, <1>3 DEF Expire, Fresh, ReadsOwnWrites, Entity, Entities
  <2> QED
    BY <1>0, <1>3, <2>2, <2>3 DEF Expire, CacheTypeOK, Data
<1>4. ASSUME NEW e \in Contested, OtherWrite(e)
      PROVE  CacheInv' /\ DOMAIN pending' = DOMAIN pending /\ \A d \in Entities : db[d] <= db'[d]
  <2>1. e \in Entities
    BY CacheAssumption
  <2>2. db' \in [Entities -> Data] /\ \A d \in Entities : db[d] <= db'[d]
    BY <1>0, <1>4, <2>1, WriteRaises DEF OtherWrite
  <2>3. CacheTypeOK'
    BY <1>0, <1>4, <2>2 DEF OtherWrite, CacheTypeOK
  <2>4. \A d \in Entities : own[d] \in Int /\ db[d] \in Int /\ db'[d] \in Int
    BY <1>0, <2>2 DEF CacheTypeOK, Data
  <2>5. Fresh'
    BY <1>0, <1>4, <2>2, <2>4 DEF OtherWrite, Fresh, ReadsOwnWrites, Entity, Entities
  <2> QED
    BY <1>4, <2>2, <2>3, <2>5 DEF OtherWrite
<1>5. ASSUME NEW e \in Busy, WindowChanges(e)
      PROVE  CacheInv' /\ DOMAIN pending' = DOMAIN pending /\ \A d \in Entities : db[d] <= db'[d]
  <2>1. mishaps' \in 0 .. MaxMishaps
    BY <1>0, <1>5, CacheAssumption DEF CacheTypeOK, WindowChanges
  <2>2. CacheTypeOK'
    BY <1>0, <1>5, <2>1 DEF WindowChanges, CacheTypeOK
  <2>3. Fresh'
    BY <1>0, <1>5 DEF WindowChanges, Fresh, ReadsOwnWrites, Entity, Entities
  <2> QED
    BY <1>0, <1>5, <2>2, <2>3 DEF WindowChanges, CacheTypeOK, Data
<1> QED
  BY <1>1, <1>2, <1>3, <1>4, <1>5 DEF CacheStep

-----------------------------------------------------------------------------
(* The writes *)

DbGrows == CacheTypeOK /\ CacheTypeOK' /\ \A e \in Entities : db[e] <= db'[e]

LEMMA NoWriteIs == NoWrite \in WriteRecord /\ NoWrite.mine = FALSE
BY CacheAssumption DEF NoWrite, WriteRecord, NoKey, Data

LEMMA MineStays ==
  ASSUME NEW w \in WriteRecord, w.mine = FALSE
  PROVE  [w EXCEPT !.mine = FALSE] = w
BY DEF WriteRecord

LEMMA DbSame ==
  ASSUME CacheTypeOK, CacheTypeOK', db' = db
  PROVE  DbGrows
BY DEF DbGrows, CacheTypeOK, Data

\* A clicked write stays one when the backend's data grows.
LEMMA ClickedStays ==
  ASSUME DbGrows, NEW w \in WriteRecord, NEW t, ClickedIn(w, db, t)
  PROVE  ClickedIn(w, db', t)
<1>1. w.entity \in Entities
  BY KeyEntity DEF ClickedIn
<1>2. w.data \in Int /\ db[w.entity] \in Int /\ db'[w.entity] \in Int /\ db[w.entity] <= db'[w.entity]
  BY <1>1 DEF DbGrows, CacheTypeOK, Data, WriteRecord
<1> QED
  BY <1>2 DEF ClickedIn

LEMMA WritesKept ==
  ASSUME WritesOK, DbGrows, writes' = writes, tab' = tab
  PROVE  WritesOK'
<1>1. \A i \in Writes : writes[i] \in WriteRecord
  BY DEF WritesOK
<1>2. writes' \in [Writes -> WriteRecord]
  BY DEF WritesOK
<1>3. ASSUME NEW i \in Writes, writes[i] # NoWrite
      PROVE  ClickedIn(writes[i], db', tab)
  BY <1>1, <1>3, ClickedStays DEF WritesOK
<1> QED
  BY <1>2, <1>3 DEF WritesOK, Writes, WriteRecord

\* One write moves.
LEMMA WritesMove ==
  ASSUME WritesOK, DbGrows, tab' = tab, NEW i \in Writes, NEW w \in WriteRecord,
         writes' = [writes EXCEPT ![i] = w], ClickedIn(w, db', tab)
  PROVE  WritesOK'
<1>1. writes \in [Writes -> WriteRecord]
  BY DEF WritesOK
<1>2. writes' \in [Writes -> WriteRecord] /\ writes'[i] = w
      /\ \A j \in Writes \ {i} : writes'[j] = writes[j]
  BY <1>1
<1>3. ASSUME NEW j \in Writes
      PROVE  writes'[j] = NoWrite \/ ClickedIn(writes'[j], db', tab)
  <2>1. CASE j = i
    BY <2>1, <1>2
  <2>2. CASE j # i
    <3>1. writes[j] \in WriteRecord /\ (writes[j] = NoWrite \/ ClickedIn(writes[j], db, tab))
      BY <1>1 DEF WritesOK
    <3> QED
      BY <2>2, <3>1, <1>2, ClickedStays
  <2> QED
    BY <2>1, <2>2
<1> QED
  BY <1>2, <1>3 DEF WritesOK, Writes, WriteRecord

LEMMA WritesEnd ==
  ASSUME WritesOK, DbGrows, tab' = tab, NEW i \in Writes, writes[i].stage \in Stages,
         writes' = [writes EXCEPT ![i].stage = "done"]
  PROVE  /\ WritesOK'
         /\ \A j \in Writes \ {i} : writes'[j] = writes[j]
<1> DEFINE w == [writes[i] EXCEPT !.stage = "done"]
<1>1. writes \in [Writes -> WriteRecord] /\ writes[i] \in WriteRecord
  BY DEF WritesOK
<1>2. writes[i] # NoWrite
  BY DEF NoWrite, Stages
<1>3. w \in WriteRecord
  BY <1>1 DEF WriteRecord, Stages
<1>4. ClickedIn(writes[i], db', tab)
  BY <1>1, <1>2, ClickedStays DEF WritesOK
<1>5. ClickedIn(w, db', tab)
  BY <1>1, <1>4 DEF ClickedIn, WriteRecord, Stages
<1>6. writes' = [writes EXCEPT ![i] = w]
  OBVIOUS
<1> HIDE DEF w
<1>7. WritesOK'
  BY <1>3, <1>5, <1>6, WritesMove
<1> QED
  BY <1>1, <1>6, <1>7

\* A click, in the panel that is mounted.
LEMMA WritesStart ==
  ASSUME WritesOK, DbGrows, tab' = tab, db' = db, NEW e \in Panels, NEW o \in Ops, NEW k \in Keys,
         Entity(k) = e, tab = e, Start(e, o, k)
  PROVE  /\ WritesOK'
         /\ \A j \in Writes : writes[j].mine => writes'[j] = writes[j]
         /\ o # "delete" => \E i \in Writes : Submitting(i)'
<1>1. writes \in [Writes -> WriteRecord]
  BY DEF WritesOK
<1> DEFINE w == [entity |-> e, op |-> o, key |-> k, stage |-> "sent", data |-> 0,
                 tries |-> 1, applied |-> 0, mine |-> TRUE]
<1>2. PICK i \in Writes : writes[i] = NoWrite /\ writes' = [writes EXCEPT ![i] = w]
  BY DEF Start
<1>3. w \in WriteRecord
  BY CacheAssumption DEF WriteRecord, Stages, Data
<1>4. e \in Entities /\ 0 <= db'[e]
  BY KeyEntity DEF DbGrows, CacheTypeOK, Data
<1>5. ClickedIn(w, db', tab)
  BY <1>4, AttemptsPositive DEF ClickedIn, Stages
<1>6. w.mine /\ w.op = o /\ w.stage = "sent"
  OBVIOUS
<1> HIDE DEF w
<1>7. WritesOK'
  BY <1>2, <1>3, <1>5, WritesMove
<1>8. \A j \in Writes : writes[j].mine => writes'[j] = writes[j]
  BY <1>1, <1>2, NoWriteIs
<1>9. o # "delete" => Submitting(i)'
  BY <1>1, <1>2, <1>6 DEF Submitting
<1> QED
  BY <1>7, <1>8, <1>9

\* What was clicked in the panel that leaves no longer acts on its state.
LEMMA WritesMounted ==
  ASSUME WritesOK, DbGrows, writes' = [i \in Writes |-> [writes[i] EXCEPT !.mine = FALSE]]
  PROVE  WritesOK'
<1>1. writes \in [Writes -> WriteRecord]
  BY DEF WritesOK
<1>2. ASSUME NEW i \in Writes
      PROVE  /\ writes'[i] \in WriteRecord
             /\ writes'[i] = NoWrite \/ ClickedIn(writes'[i], db', tab')
  <2>1. writes[i] \in WriteRecord /\ writes'[i] = [writes[i] EXCEPT !.mine = FALSE]
    BY <1>1
  <2>2. writes'[i] \in WriteRecord
    BY <2>1 DEF WriteRecord
  <2>3. CASE writes[i] = NoWrite
    BY <2>1, <2>3, NoWriteIs, MineStays
  <2>4. CASE writes[i] # NoWrite
    <3>1. ClickedIn(writes[i], db', tab)
      BY <2>1, <2>4, ClickedStays DEF WritesOK
    <3>2. ClickedIn(writes'[i], db', tab')
      BY <2>1, <3>1 DEF ClickedIn, WriteRecord
    <3> QED
      BY <2>2, <3>2
  <2> QED
    BY <2>2, <2>3, <2>4
<1>3. writes' \in [Writes -> WriteRecord]
  BY <1>2
<1> QED
  BY <1>2, <1>3 DEF WritesOK, Writes, WriteRecord

-----------------------------------------------------------------------------
(* Handlers and answers that the panels share *)

\* The spinner of a step that stops nothing.
LEMMA SpinnerStays ==
  ASSUME SpinnerOK, tab' = tab, loading' => loading, waits' = waits,
         DOMAIN pending \subseteq DOMAIN pending',
         tab = "player" => \A i \in Writes : Submitting(i) => Submitting(i)'
  PROVE  SpinnerOK'
<1>1. \A k \in waits' : Entity(k) = "player" => tab' = "player"
  BY DEF SpinnerOK
<1>2. RowsAwaited => RowsAwaited'
  BY DEF RowsAwaited, Entity
<1>3. Writes' = Writes
  BY DEF Writes
<1> QED
  BY <1>1, <1>2, <1>3 DEF SpinnerOK, Entity

\* ... and of one that asks for the rows k and waits for them, if it must.
LEMMA SpinnerTurns ==
  ASSUME SpinnerOK, tab' = tab, NEW k, Entity(k) = tab,
         waits' \subseteq Keys, \A x \in waits' \ waits : Entity(x) = "player" => tab = "player",
         loading' => k \in waits' /\ k \in DOMAIN pending'
  PROVE  SpinnerOK'
<1>1. \A x \in waits' : Entity(x) = "player" => tab' = "player"
  BY DEF SpinnerOK
<1>2. loading' => RowsAwaited'
  BY DEF RowsAwaited, Entity
<1> QED
  BY <1>1, <1>2 DEF SpinnerOK, Entity

LEMMA MountInv ==
  ASSUME DashboardInv, NEW e \in Panels, NEW k \in Keys, Entity(k) = e, e # "player",
         NEW others \in SUBSET Keys, IsFiniteSet(others),
         \A x \in others : Entity(x) # "player",
         Mount(e, k, others)
  PROVE  DashboardInv'
<1> DEFINE asked == {k} \cup others
<1>1. asked \in SUBSET Keys /\ IsFiniteSet(asked) /\ k \in asked
  BY FS_Singleton, FS_Union
<1>2. GetWithCache(cache, asked, {}) /\ own' = own
  BY DEF Mount
<1>3. /\ tab' = e
      /\ list' = IF Hit(cache, k) THEN cache[k] ELSE Miss
      /\ loading' = Awaited(cache, k)
      /\ options' = {Entity(o) : o \in {x \in others : Hit(cache, x)}}
      /\ waits' = {x \in asked : Awaited(cache, x)}
      /\ form' = Closed /\ filter' = "all" /\ pageNo' = 1
      /\ writes' = [i \in Writes |-> [writes[i] EXCEPT !.mine = FALSE]]
  BY DEF Mount
<1>4. \A x \in asked : Entity(x) # "player"
  OBVIOUS
<1> HIDE DEF asked
<1>5. /\ CacheInv' /\ db' = db
      /\ \A x \in asked : Awaited(cache, x) => x \in DOMAIN pending'
  BY <1>1, <1>2, AsksInv DEF DashboardInv
<1>6. DbGrows
  BY <1>5, DbSame DEF DashboardInv, CacheInv
<1>7. WritesOK'
  BY <1>3, <1>6, WritesMounted DEF DashboardInv
<1>8. ViewOK'
  <2>1. tab' \in Entities
    BY <1>3, KeyEntity
  <2>2. list' \in Data \cup {Miss}
    BY <1>3 DEF Hit, DashboardInv, CacheInv, CacheTypeOK
  <2>3. options' \subseteq Entities
    BY <1>3, KeyEntity
  <2>4. loading' \in BOOLEAN
    BY <1>3 DEF Awaited
  <2>5. waits' \subseteq Keys
    BY <1>1, <1>3
  <2> QED
    BY <1>3, <2>1, <2>2, <2>3, <2>4, <2>5 DEF ViewOK, Closed, Filters, Entities, Data, Miss
<1>9. SpinnerOK'
  <2>1. \A x \in waits' : Entity(x) # "player"
    BY <1>3, <1>4
  <2>2. loading' => k \in waits' /\ Entity(k) = tab' /\ k \in DOMAIN pending'
    BY <1>1, <1>3, <1>5
  <2>3. loading' => RowsAwaited'
    BY <2>2 DEF RowsAwaited, Entity
  <2> QED
    BY <2>1, <2>3 DEF SpinnerOK, Entity
<1> QED
  BY <1>5, <1>7, <1>8, <1>9 DEF DashboardInv

\* A step of the panel's own that asks nobody.
LEMMA QuietInv ==
  ASSUME DashboardInv, UNCHANGED cacheVars, tab' = tab, waits' = waits,
         UNCHANGED <<list, options>>, loading' = loading
  PROVE  /\ CacheInv' /\ DbGrows /\ DOMAIN pending' = DOMAIN pending
         /\ WritesOK' /\ form' \in [open : BOOLEAN, editing : BOOLEAN, filled : BOOLEAN]
              /\ filter' \in Filters /\ pageNo' = pageNo
              /\ (\A i \in Writes : tab = "player" /\ Submitting(i) => Submitting(i)')
            => DashboardInv'
<1>1. CacheInv'
  BY DEF DashboardInv, CacheInv, cacheVars, CacheTypeOK, Fresh, ReadsOwnWrites, Entities, Entity,
         Data, Request
<1>2. DbGrows
  BY <1>1, DbSame DEF DashboardInv, CacheInv, cacheVars
<1>3. ASSUME filter' \in Filters, pageNo' = pageNo,
             form' \in [open : BOOLEAN, editing : BOOLEAN, filled : BOOLEAN]
      PROVE  ViewOK'
  BY <1>3 DEF DashboardInv, ViewOK, Entities, Data, Miss, Filters
<1>4. ASSUME \A i \in Writes : tab = "player" /\ Submitting(i) => Submitting(i)'
      PROVE  SpinnerOK'
  BY <1>4, SpinnerStays DEF DashboardInv, cacheVars
<1>5. DOMAIN pending' = DOMAIN pending
  BY DEF cacheVars
<1> QED
  BY <1>1, <1>2, <1>3, <1>4, <1>5 DEF DashboardInv

\* The form, and the filter that is not applied yet.
LEMMA FormInv ==
  ASSUME DashboardInv, UNCHANGED <<cacheVars, tab, list, options, loading, pageNo, waits, writes>>,
         form' \in [open : BOOLEAN, editing : BOOLEAN, filled : BOOLEAN], filter' \in Filters
  PROVE  DashboardInv'
<1>1. CacheInv' /\ DbGrows
  BY QuietInv
<1>2. WritesOK'
  BY <1>1, WritesKept DEF DashboardInv
<1>3. \A i \in Writes : Submitting(i) => Submitting(i)'
  BY DEF Submitting
<1> QED
  BY <1>2, <1>3, QuietInv

LEMMA FormStepInv ==
  ASSUME DashboardInv, NEW e,
         EditRow(e) \/ ToggleForm(e) \/ CancelForm(e) \/ TypeInto(e)
           \/ (\E f \in Filters : SetFilter(e, f))
  PROVE  DashboardInv'
<1>1. form \in [open : BOOLEAN, editing : BOOLEAN, filled : BOOLEAN] /\ filter \in Filters
  BY DEF DashboardInv, ViewOK
<1>2. ASSUME FormOnly(e)
      PROVE  UNCHANGED <<cacheVars, tab, list, options, loading, filter, pageNo, waits, writes>>
  BY <1>2 DEF FormOnly
<1>3. CASE EditRow(e)
  BY <1>1, <1>2, <1>3, FormInv DEF EditRow
<1>4. CASE ToggleForm(e)
  BY <1>1, <1>2, <1>4, FormInv DEF ToggleForm, Closed
<1>5. CASE CancelForm(e)
  BY <1>1, <1>2, <1>5, FormInv DEF CancelForm, Closed
<1>6. CASE TypeInto(e)
  BY <1>1, <1>2, <1>6, FormInv DEF TypeInto
<1>7. ASSUME NEW f \in Filters, SetFilter(e, f)
      PROVE  DashboardInv'
  BY <1>1, <1>7, FormInv DEF SetFilter
<1> QED
  BY <1>3, <1>4, <1>5, <1>6, <1>7

\* A click in a panel without a spinner of its own.
LEMMA ClickInv ==
  ASSUME DashboardInv, NEW e \in Panels, NEW o \in Ops, NEW k \in Keys, Entity(k) = e, tab = e,
         Start(e, o, k),
         UNCHANGED <<cacheVars, tab, visits, list, options, loading, form, filter, pageNo, waits>>
  PROVE  DashboardInv'
<1>1. CacheInv' /\ DbGrows
  BY QuietInv
<1>2. db' = db
  BY DEF cacheVars
<1>3. WritesOK' /\ \A j \in Writes : writes[j].mine => writes'[j] = writes[j]
  BY <1>1, <1>2, WritesStart DEF DashboardInv
<1>4. \A j \in Writes : Submitting(j) => Submitting(j)'
  BY <1>3 DEF Submitting
<1> QED
  BY <1>3, <1>4, QuietInv DEF DashboardInv, ViewOK

LEMMA SubmitInv ==
  ASSUME DashboardInv, NEW e \in Panels, NEW o \in Ops, NEW k \in Keys, Entity(k) = e,
         Submit(e, o, k)
  PROVE  DashboardInv'
BY ClickInv DEF Submit, Here

LEMMA DeleteInv ==
  ASSUME DashboardInv, NEW e \in Panels, NEW k \in Keys, Entity(k) = e, Delete(e, k)
  PROVE  DashboardInv'
BY ClickInv DEF Delete, RowsShown, Here, Ops

\* What an answer that was awaited leaves, and the requests S that follow it.
LEMMA SettleInv ==
  ASSUME CacheInv, NEW k \in DOMAIN pending, NEW c,
         c = cache \/ (c = Filled(k) /\ pending[k].stage = "ok"),
         NEW S \in SUBSET Keys, IsFiniteSet(S),
         \A x \in S : x \notin DOMAIN c /\ x \notin DOMAIN pending,
         cache' = c, pending' = Asked(Released(k), S),
         gets' = gets + Cardinality(S), raced' = raced \ S,
         UNCHANGED <<db, full, own, mishaps>>
  PROVE  /\ CacheInv' /\ DbGrows
         /\ DOMAIN pending' = (DOMAIN pending \ {k}) \cup S
         /\ DOMAIN c \subseteq Keys /\ \A x \in DOMAIN c : c[x] \in Data
<1>1. CacheTypeOK /\ Fresh /\ k \in Keys /\ pending[k].data \in Data
  BY DEF CacheInv, CacheTypeOK, Request
<1>2. /\ DOMAIN Released(k) = DOMAIN pending \ {k}
      /\ \A x \in DOMAIN pending \ {k} : Released(k)[x] = pending[x]
  BY FilledIs
<1>3. /\ DOMAIN c \subseteq DOMAIN cache \cup {k}
      /\ \A x \in DOMAIN c : \/ c[x] = cache[x] /\ x \in DOMAIN cache
                             \/ x = k /\ c[x] = pending[k].data /\ pending[k].stage = "ok"
  <2>1. CASE c = cache
    BY <2>1
  <2>2. CASE c = Filled(k) /\ pending[k].stage = "ok"
    BY <2>2 DEF Filled
  <2> QED
    BY <2>1, <2>2
<1>4. DOMAIN c \subseteq Keys /\ \A x \in DOMAIN c : c[x] \in Data
  BY <1>1, <1>3 DEF CacheTypeOK
<1>5. DOMAIN pending' = (DOMAIN pending \ {k}) \cup S
  BY <1>2, AskedIs
<1>6. \A x \in DOMAIN pending' : \/ x \in S /\ pending'[x] = Sent
                                 \/ x \in DOMAIN pending /\ x \notin S /\ pending'[x] = pending[x]
  <2> TAKE x \in DOMAIN pending'
  <2>1. CASE x \in S
    <3>1. x \notin DOMAIN Released(k)
      BY <1>2, <2>1
    <3> QED
      BY <2>1, <3>1 DEF Asked
  <2>2. CASE x \notin S
    <3>1. x \in DOMAIN Released(k)
      BY <1>2, <1>5, <2>2
    <3>2. Asked(Released(k), S)[x] = Released(k)[x]
      BY <3>1 DEF Asked
    <3> QED
      BY <1>2, <2>2, <3>1, <3>2
  <2> QED
    BY <2>1, <2>2
<1>7. gets' \in Nat
  BY <1>1, CountFinite DEF CacheTypeOK
<1>8. DOMAIN pending' \subseteq Keys /\ \A x \in DOMAIN pending' : pending'[x] \in Request
  BY <1>1, <1>5, <1>6, SentIs DEF CacheTypeOK
<1>9. CacheTypeOK'
  BY <1>1, <1>4, <1>7, <1>8 DEF CacheTypeOK
<1>10. ReadsOwnWrites'
  BY <1>1, <1>3 DEF Fresh, ReadsOwnWrites, Entity
<1>11. \A x \in DOMAIN pending' \ raced' :
         pending'[x].stage = "ok" => pending'[x].data >= own[Entity(x)]
  BY <1>1, <1>6, SentIs DEF Fresh
<1>12. Fresh'
  BY <1>1, <1>10, <1>11 DEF Fresh, Entity, Entities
<1> QED
  BY <1>1, <1>4, <1>5, <1>9, <1>12, DbSame DEF CacheInv

LEMMA SettleQuietly ==
  ASSUME CacheInv, NEW k \in DOMAIN pending, NEW c,
         c = cache \/ (c = Filled(k) /\ pending[k].stage = "ok"),
         cache' = c, pending' = Released(k), UNCHANGED <<db, full, own, gets, mishaps, raced>>
  PROVE  /\ CacheInv' /\ DbGrows /\ DOMAIN pending' = DOMAIN pending \ {k}
         /\ pending[k].stage = "ok" => pending[k].data \in Data
<1>1. Released(k) = Asked(Released(k), {})
  BY DEF Asked, Released
<1> DEFINE S == {}
<1>2. /\ gets' = gets + Cardinality(S) /\ IsFiniteSet(S) /\ raced' = raced \ S
      /\ pending' = Asked(Released(k), S) /\ S \in SUBSET Keys
      /\ \A x \in S : x \notin DOMAIN c /\ x \notin DOMAIN pending
  BY <1>1, FS_EmptySet DEF CacheInv, CacheTypeOK
<1> HIDE DEF S
<1>3. CacheInv' /\ DbGrows /\ DOMAIN pending' = (DOMAIN pending \ {k}) \cup S
  BY <1>2, SettleInv
<1> QED
  BY <1>3 DEF S, CacheInv, CacheTypeOK, Request

\* Rows that arrive, or do not, for one of the four panels.
LEMMA FetchedInv ==
  ASSUME DashboardInv, NEW k \in DOMAIN pending, Fetched(k) \/ NotFetched(k)
  PROVE  DashboardInv'
<1>1. CacheInv' /\ DbGrows /\ DOMAIN pending' = DOMAIN pending \ {k}
  BY SettleQuietly DEF DashboardInv, Fetched, NotFetched
<1>2. WritesOK'
  BY <1>1, WritesKept DEF DashboardInv, Fetched, NotFetched
<1>3. /\ tab' = tab /\ waits' = waits \ {k} /\ form' = form /\ filter' = filter /\ pageNo' = pageNo
      /\ writes' = writes /\ Entity(k) # "player"
      /\ list' = list \/ (list' = pending[k].data /\ pending[k].stage = "ok")
      /\ options' \subseteq options \cup {Entity(k)}
      /\ loading' = IF k \in waits /\ Entity(k) = tab THEN FALSE ELSE loading
  BY DEF Fetched, NotFetched, SpinnerEnds
<1>4. k \in Keys /\ pending[k].data \in Data
  BY DEF DashboardInv, CacheInv, CacheTypeOK, Request
<1>5. ViewOK'
  <2>1. Entity(k) \in Entities
    BY <1>4, KeyEntity
  <2>2. list' \in Data \cup {Miss} /\ options' \subseteq Entities /\ loading' \in BOOLEAN
    BY <1>3, <1>4, <2>1 DEF DashboardInv, ViewOK
  <2> QED
    BY <1>3, <2>2 DEF DashboardInv, ViewOK, Entities, Data, Miss, Filters
<1>6. SpinnerOK'
  <2>1. loading' => RowsAwaited' \/ (tab' = "player" /\ \E i \in Writes : Submitting(i)')
    <3> SUFFICES ASSUME loading'
                 PROVE  RowsAwaited' \/ (tab' = "player" /\ \E i \in Writes : Submitting(i)')
      OBVIOUS
    <3>1. loading /\ ~(k \in waits /\ Entity(k) = tab)
      BY <1>3
    <3>2. CASE RowsAwaited
      <4>1. PICK x \in waits : Entity(x) = tab /\ x \in DOMAIN pending
        BY <3>2 DEF RowsAwaited
      <4>2. x # k
        BY <3>1, <4>1
      <4> QED
        BY <1>1, <1>3, <4>1, <4>2 DEF RowsAwaited, Entity
    <3>3. CASE tab = "player" /\ \E i \in Writes : Submitting(i)
      BY <1>3, <3>3 DEF Submitting
    <3> QED
      BY <3>1, <3>2, <3>3 DEF DashboardInv, SpinnerOK
  <2>2. Writes' = Writes
    BY DEF Writes
  <2> QED
    BY <1>3, <2>1, <2>2 DEF DashboardInv, SpinnerOK, Entity
<1> QED
  BY <1>1, <1>2, <1>5, <1>6 DEF DashboardInv

\* A handler of the mounted panel asks for its rows k.
LEMMA FetchView ==
  ASSUME DashboardInv, NEW c, DOMAIN c \subseteq DOMAIN cache, \A x \in DOMAIN c : c[x] = cache[x],
         NEW k \in Keys, Entity(k) = tab, NEW over, Fetch(c, k, {}, over),
         Awaited(c, k) => k \in DOMAIN pending',
         tab' = tab, pageNo' = pageNo, filter' \in Filters,
         form' \in [open : BOOLEAN, editing : BOOLEAN, filled : BOOLEAN]
  PROVE  ViewOK' /\ SpinnerOK'
<1>1. /\ list' = IF Hit(c, k) THEN c[k] ELSE list
      /\ loading' = Awaited(c, k)
      /\ options' = options \cup {Entity(o) : o \in {x \in {} : Hit(c, x)}}
      /\ waits' = waits \cup {x \in {k} \cup {} : Awaited(c, x)}
  BY DEF Fetch
<1>2. options' = options
  BY <1>1
<1>3. waits' \subseteq waits \cup {k} /\ (Awaited(c, k) => k \in waits')
  BY <1>1
<1>4. list' \in Data \cup {Miss}
  BY <1>1 DEF Hit, DashboardInv, CacheInv, CacheTypeOK, ViewOK
<1>5. loading' \in BOOLEAN
  BY <1>1 DEF Awaited
<1>6. ViewOK'
  BY <1>2, <1>3, <1>4, <1>5 DEF DashboardInv, ViewOK, Entities, Data, Miss, Filters
<1>7. SpinnerOK'
  <2>1. waits' \subseteq Keys
    BY <1>3 DEF DashboardInv, ViewOK
  <2>2. loading' => k \in waits' /\ k \in DOMAIN pending'
    BY <1>1, <1>3
  <2> QED
    BY <1>3, <2>1, <2>2, SpinnerTurns DEF DashboardInv
<1> QED
  BY <1>6, <1>7

LEMMA FilterInv ==
  ASSUME DashboardInv, NEW e \in Panels, NEW k \in Keys, Entity(k) = e,
         ApplyFilter(e, k) \/ ResetFilter(e, k)
  PROVE  DashboardInv'
<1>1. /\ tab = e /\ Fetch(cache, k, {}, {}) /\ own' = own /\ tab' = tab /\ form' = form
      /\ pageNo' = pageNo /\ writes' = writes /\ filter' \in {filter, "all"}
  BY DEF ApplyFilter, ResetFilter, Here
<1>2. GetWithCache(cache, {k}, {})
  <2>1. {k} \cup {} = {k}
    OBVIOUS
  <2> QED
    BY <1>1, <2>1 DEF Fetch
<1>3. CacheInv' /\ db' = db /\ (Awaited(cache, k) => k \in DOMAIN pending')
  BY <1>1, <1>2, AsksInv, FS_Singleton DEF DashboardInv
<1>4. DbGrows
  BY <1>3, DbSame DEF DashboardInv, CacheInv
<1>5. WritesOK'
  BY <1>1, <1>4, WritesKept DEF DashboardInv
<1>6. filter' \in Filters /\ form' \in [open : BOOLEAN, editing : BOOLEAN, filled : BOOLEAN]
  BY <1>1 DEF DashboardInv, ViewOK, Filters
<1>7. ViewOK' /\ SpinnerOK'
  BY <1>1, <1>3, <1>6, FetchView
<1> QED
  BY <1>3, <1>5, <1>7 DEF DashboardInv

\* A write that was answered, and what the panel and the service then do.
LEMMA AnsweredWrite ==
  ASSUME DashboardInv, NEW i \in Writes, writes[i].stage \in Stages
  PROVE  LET w == writes[i] IN
           /\ w.entity \in Panels /\ w.entity \in Entities /\ w.op \in Ops
           /\ w.key \in Keys /\ Entity(w.key) = w.entity
           /\ w.data \in Data /\ w.data <= db[w.entity]
           /\ w.mine \in BOOLEAN /\ (w.mine => w.entity = tab)
<1>1. writes[i] \in WriteRecord
  BY DEF DashboardInv, WritesOK
<1>2. writes[i] # NoWrite
  BY DEF NoWrite, Stages
<1>3. ClickedIn(writes[i], db, tab)
  BY <1>2 DEF DashboardInv, WritesOK
<1> QED
  BY <1>1, <1>3, KeyEntity DEF ClickedIn, WriteRecord

LEMMA SavedInv ==
  ASSUME DashboardInv, NEW e \in Panels, e # "player", NEW i \in Writes, Saved(e, i)
  PROVE  DashboardInv'
<1> DEFINE w == writes[i]
           gone == Service(e).clears
           c == Cleared(gone)
           over == Overtaken(gone)
<1>1. w.entity = e /\ w.stage = "ok" /\ w.stage \in Stages
  BY DEF Saved, Stages
<1>2. /\ w.key \in Keys /\ Entity(w.key) = e /\ e \in Entities
      /\ w.data \in Data /\ w.data <= db[e] /\ (w.mine => tab = e)
  BY <1>1, AnsweredWrite
<1>3. GetWithCache(c, {w.key}, over)
  <2>1. {w.key} \cup {} = {w.key}
    OBVIOUS
  <2> QED
    BY <2>1 DEF Saved, Fetch
<1>4. ClearsFor(e, w.data)
  BY DEF Saved, ClearsFor
<1>5. /\ CacheInv' /\ db' = db /\ DOMAIN pending \subseteq DOMAIN pending'
      /\ Awaited(c, w.key) => w.key \in DOMAIN pending'
  <2> DEFINE asked == {w.key}
             n == w.data
  <2>1. /\ asked \in SUBSET Keys /\ IsFiniteSet(asked) /\ w.key \in asked
        /\ n \in Data /\ n <= db[e] /\ e \in Entities
    BY <1>2, FS_Singleton
  <2>2. GetWithCache(Cleared(Service(e).clears), asked, Overtaken(Service(e).clears))
        /\ ClearsFor(e, n)
    BY <1>3, <1>4
  <2> HIDE DEF asked, n
  <2>3. /\ CacheInv' /\ db' = db /\ DOMAIN pending \subseteq DOMAIN pending'
        /\ \A k \in asked : Awaited(Cleared(Service(e).clears), k) => k \in DOMAIN pending'
    BY <2>1, <2>2, ClearsInv DEF DashboardInv
  <2> QED
    BY <2>1, <2>3
<1>6. DbGrows
  BY <1>5, DbSame DEF DashboardInv, CacheInv
<1>7. tab' = tab /\ filter' = filter /\ pageNo' = pageNo
      /\ writes' = [writes EXCEPT ![i].stage = "done"]
  BY DEF Saved
<1>8. WritesOK' /\ \A j \in Writes \ {i} : writes'[j] = writes[j]
  BY <1>1, <1>6, <1>7, WritesEnd DEF DashboardInv
<1>9. ViewOK' /\ SpinnerOK'
  <2>1. CASE w.mine
    <3>1. Fetch(c, w.key, {}, over) /\ form' \in {form, Closed}
      BY <2>1 DEF Saved
    <3>2. form' \in [open : BOOLEAN, editing : BOOLEAN, filled : BOOLEAN] /\ filter' \in Filters
      <4>1. /\ form \in [open : BOOLEAN, editing : BOOLEAN, filled : BOOLEAN]
            /\ Closed \in [open : BOOLEAN, editing : BOOLEAN, filled : BOOLEAN]
            /\ filter \in Filters
        BY DEF DashboardInv, ViewOK, Closed
      <4> QED
        BY <1>7, <3>1, <4>1
    <3>3. DOMAIN c \subseteq DOMAIN cache /\ \A x \in DOMAIN c : c[x] = cache[x]
      BY DEF Cleared
    <3> QED
      BY <1>2, <1>5, <1>7, <2>1, <3>1, <3>2, <3>3, FetchView
  <2>2. CASE ~w.mine
    <3>1. UNCHANGED <<list, loading, options, waits, form>>
      BY <2>2 DEF Saved
    <3>2. ViewOK'
      BY <1>7, <3>1 DEF DashboardInv, ViewOK, Entities, Data, Miss, Filters
    <3>3. \A j \in Writes : Submitting(j) => Submitting(j)'
      BY <1>8, <2>2 DEF Submitting
    <3> QED
      BY <1>5, <1>7, <3>1, <3>2, <3>3, SpinnerStays DEF DashboardInv
  <2> QED
    BY <2>1, <2>2
<1> QED
  BY <1>5, <1>8, <1>9 DEF DashboardInv

LEMMA FailedStage ==
  ASSUME NEW w, Failed(w)
  PROVE  w.stage \in Stages
BY DEF Failed, Stages

LEMMA NotSavedInv ==
  ASSUME DashboardInv, NEW e \in Panels, e # "player", NEW i \in Writes, NotSaved(e, i)
  PROVE  DashboardInv'
<1>1. writes[i].stage \in Stages /\ writes[i].entity = e
  BY FailedStage DEF NotSaved
<1>2. /\ UNCHANGED <<cacheVars, tab, visits, list, options, loading, form, filter, pageNo, waits>>
      /\ writes' = [writes EXCEPT ![i].stage = "done"]
  BY DEF NotSaved
<1>3. CacheInv' /\ DbGrows
  BY <1>2, QuietInv
<1>4. WritesOK' /\ \A j \in Writes \ {i} : writes'[j] = writes[j]
  BY <1>1, <1>2, <1>3, WritesEnd DEF DashboardInv
<1>5. tab = "player" => ~Submitting(i)
  BY <1>1, AnsweredWrite DEF Submitting
<1>6. \A j \in Writes : tab = "player" /\ Submitting(j) => Submitting(j)'
  BY <1>4, <1>5 DEF Submitting
<1> QED
  BY <1>2, <1>4, <1>6, QuietInv DEF DashboardInv, ViewOK

-----------------------------------------------------------------------------
(* The network and the backend *)

LEMMA ViewKept ==
  ASSUME DashboardInv, UNCHANGED viewVars, DOMAIN pending \subseteq DOMAIN pending',
         \A j \in Writes : Submitting(j) => Submitting(j)'
  PROVE  ViewOK' /\ SpinnerOK'
<1>1. ViewOK'
  BY DEF DashboardInv, ViewOK, viewVars, Entities, Data, Miss, Filters
<1>2. SpinnerOK'
  BY SpinnerStays DEF DashboardInv, viewVars
<1> QED
  BY <1>1, <1>2

LEMMA CacheTrafficInv ==
  ASSUME DashboardInv, CacheStep, UNCHANGED <<viewVars, writes>>
  PROVE  DashboardInv'
<1>1. CacheInv' /\ DOMAIN pending' = DOMAIN pending /\ \A e \in Entities : db[e] <= db'[e]
  BY CacheStepInv DEF DashboardInv
<1>2. WritesOK'
  BY <1>1, WritesKept DEF DashboardInv, CacheInv, DbGrows, viewVars
<1>3. ViewOK' /\ SpinnerOK'
  BY <1>1, ViewKept DEF Submitting
<1> QED
  BY <1>1, <1>2, <1>3 DEF DashboardInv

\* The backend's data grows and nothing else of the cache's state changes but the
\* count of mishaps.
LEMMA DbRises ==
  ASSUME CacheInv, NEW e \in Entities, Write(e) \/ db' = db, mishaps' \in 0 .. MaxMishaps,
         UNCHANGED <<cache, pending, full, own, gets, raced>>
  PROVE  CacheInv' /\ DbGrows
<1>1. db' \in [Entities -> Data] /\ \A d \in Entities : db[d] <= db'[d]
  BY WriteRaises DEF CacheInv, CacheTypeOK, Data
<1>2. CacheTypeOK'
  BY <1>1 DEF CacheInv, CacheTypeOK
<1>3. \A d \in Entities : own[d] \in Int /\ db[d] \in Int /\ db'[d] \in Int
  BY <1>1 DEF CacheInv, CacheTypeOK, Data
<1>4. Fresh'
  BY <1>1, <1>3 DEF CacheInv, Fresh, ReadsOwnWrites, Entity, Entities
<1> QED
  BY <1>1, <1>2, <1>4 DEF CacheInv, DbGrows

\* A write on its way moves: its panel, key and kind stay.
LEMMA WriteMoves ==
  ASSUME DashboardInv, NEW i \in Writes, NEW s \in Stages, NEW d \in Data, NEW t \in Nat, NEW a \in Nat,
         writes[i].stage \in Stages, s # "done",
         writes[i].stage # "done",
         writes' = [writes EXCEPT ![i] = [writes[i] EXCEPT !.stage = s, !.data = d, !.tries = t,
                                                           !.applied = a]],
         CacheInv', DbGrows, DOMAIN pending' = DOMAIN pending, UNCHANGED viewVars,
         d <= db'[writes[i].entity],
         a <= t, t <= Service(writes[i].entity).attempts[writes[i].op], s = "sent" => a < t
  PROVE  DashboardInv'
<1> DEFINE w == [writes[i] EXCEPT !.stage = s, !.data = d, !.tries = t, !.applied = a]
<1>1. writes[i] \in WriteRecord /\ writes \in [Writes -> WriteRecord]
  BY DEF DashboardInv, WritesOK
<1>2. w \in WriteRecord
  BY <1>1 DEF WriteRecord
<1>3. writes[i] # NoWrite
  BY DEF NoWrite, Stages
<1>4. /\ w.entity = writes[i].entity /\ w.op = writes[i].op /\ w.key = writes[i].key
      /\ w.mine = writes[i].mine /\ w.stage = s /\ w.data = d /\ w.tries = t /\ w.applied = a
  BY <1>1 DEF WriteRecord
<1>5. ClickedIn(writes[i], db, tab)
  BY <1>3 DEF DashboardInv, WritesOK
<1>6. writes' = [writes EXCEPT ![i] = w]
  OBVIOUS
<1> HIDE DEF w
<1>7. ClickedIn(w, db', tab)
  BY <1>4, <1>5 DEF ClickedIn
<1>8. tab' = tab
  BY DEF viewVars
<1>9. WritesOK'
  BY <1>2, <1>6, <1>7, <1>8, WritesMove DEF DashboardInv
<1>10. \A j \in Writes : Submitting(j) => Submitting(j)'
  BY <1>1, <1>4, <1>6 DEF Submitting
<1>11. ViewOK' /\ SpinnerOK'
  BY <1>10, ViewKept
<1> QED
  BY <1>9, <1>11 DEF DashboardInv

LEMMA WriteTrafficInv ==
  ASSUME DashboardInv, NEW i \in Writes, ServeWrite(i) \/ LoseWrite(i) \/ RetryWrite(i)
  PROVE  DashboardInv'
<1>1. /\ writes \in [Writes -> WriteRecord] /\ writes[i] \in WriteRecord
      /\ writes[i].stage \in {"sent", "ok", "lost"}
  BY DEF DashboardInv, WritesOK, ServeWrite, LoseWrite, RetryWrite
<1>2. writes[i] # NoWrite /\ writes[i].stage \in Stages /\ writes[i].stage # "done"
  BY <1>1 DEF NoWrite, Stages
<1>3. ClickedIn(writes[i], db, tab)
  BY <1>2 DEF DashboardInv, WritesOK
<1>4. writes[i].entity \in Entities /\ mishaps \in 0 .. MaxMishaps
  BY <1>2, AnsweredWrite DEF DashboardInv, CacheInv, CacheTypeOK
<1>5. /\ writes[i].data \in Data /\ writes[i].tries \in Nat /\ writes[i].applied \in Nat
      /\ Service(writes[i].entity).attempts[writes[i].op] \in Nat
  BY <1>1, <1>3, AttemptsPositive DEF WriteRecord, ClickedIn
<1>6. CASE ServeWrite(i)
  <2>1. CacheInv' /\ DbGrows /\ UNCHANGED viewVars /\ pending' = pending
    <3>1. UNCHANGED <<cache, pending, full, own, gets, mishaps, raced, viewVars>>
          /\ (Write(writes[i].entity) \/ db' = db)
      BY <1>6 DEF ServeWrite
    <3> QED
      BY <1>4, <3>1, DbRises DEF DashboardInv
  <2>2. writes[i].data <= db'[writes[i].entity] /\ db'[writes[i].entity] \in Data
    <3>1. writes[i].data \in Int /\ db[writes[i].entity] \in Int /\ db'[writes[i].entity] \in Data
      BY <1>4, <1>5, <2>1 DEF DbGrows, CacheTypeOK, Data
    <3> QED
      BY <1>3, <1>4, <2>1, <3>1 DEF ClickedIn, DbGrows, Data
  <2>3. CASE writes' = [writes EXCEPT ![i].stage = "ok", ![i].applied = @ + 1,
                                      ![i].data = db'[writes[i].entity]]
    <3>1. writes' = [writes EXCEPT ![i] =
              [writes[i] EXCEPT !.stage = "ok", !.data = db'[writes[i].entity],
                                !.tries = writes[i].tries, !.applied = writes[i].applied + 1]]
      BY <1>1, <2>3 DEF WriteRecord
    <3>2. /\ writes[i].applied + 1 <= writes[i].tries /\ "ok" \in Stages
          /\ writes[i].tries <= Service(writes[i].entity).attempts[writes[i].op]
          /\ db'[writes[i].entity] <= db'[writes[i].entity] /\ writes[i].applied + 1 \in Nat
      BY <1>3, <1>5, <1>6, <2>2 DEF ClickedIn, ServeWrite, Stages, Data
    <3> QED
      BY <1>2, <1>5, <2>1, <2>2, <3>1, <3>2, WriteMoves
  <2>4. CASE writes' = [writes EXCEPT ![i].stage = "refused"]
    <3>1. writes' = [writes EXCEPT ![i] =
              [writes[i] EXCEPT !.stage = "refused", !.data = writes[i].data,
                                !.tries = writes[i].tries, !.applied = writes[i].applied]]
      BY <1>1, <2>4 DEF WriteRecord
    <3>2. /\ writes[i].applied <= writes[i].tries /\ "refused" \in Stages
          /\ writes[i].tries <= Service(writes[i].entity).attempts[writes[i].op]
      BY <1>3 DEF ClickedIn, Stages
    <3> QED
      BY <1>2, <1>5, <2>1, <2>2, <3>1, <3>2, WriteMoves
  <2> QED
    BY <1>6, <2>3, <2>4 DEF ServeWrite
<1>7. CASE LoseWrite(i)
  <2>1. mishaps' \in 0 .. MaxMishaps
    BY <1>4, <1>7, CacheAssumption DEF LoseWrite, Mishap
  <2>2. CacheInv' /\ DbGrows /\ UNCHANGED viewVars /\ pending' = pending /\ db' = db
    BY <1>4, <1>7, <2>1, DbRises DEF LoseWrite, DashboardInv
  <2>3. writes' = [writes EXCEPT ![i] =
            [writes[i] EXCEPT !.stage = "lost", !.data = writes[i].data,
                              !.tries = writes[i].tries, !.applied = writes[i].applied]]
    BY <1>1, <1>7 DEF LoseWrite, WriteRecord
  <2>4. /\ writes[i].applied <= writes[i].tries /\ "lost" \in Stages
        /\ writes[i].tries <= Service(writes[i].entity).attempts[writes[i].op]
        /\ writes[i].data <= db'[writes[i].entity]
    BY <1>3, <2>2 DEF ClickedIn, Stages
  <2> QED
    BY <1>2, <1>5, <2>2, <2>3, <2>4, WriteMoves
<1>8. CASE RetryWrite(i)
  <2>1. UNCHANGED <<cacheVars, viewVars>>
    BY <1>8 DEF RetryWrite
  <2>2. CacheInv' /\ DbGrows /\ pending' = pending /\ db' = db
    BY <1>4, <2>1, DbRises DEF cacheVars, DashboardInv
  <2>3. writes' = [writes EXCEPT ![i] =
            [writes[i] EXCEPT !.stage = "sent", !.data = writes[i].data,
                              !.tries = writes[i].tries + 1, !.applied = writes[i].applied]]
    BY <1>1, <1>8 DEF RetryWrite, WriteRecord
  <2>4. /\ writes[i].applied < writes[i].tries + 1 /\ "sent" \in Stages
        /\ writes[i].applied <= writes[i].tries + 1
        /\ writes[i].data <= db'[writes[i].entity]
    BY <1>3, <1>5, <2>2 DEF ClickedIn, Stages
  <2>5. writes[i].tries + 1 <= Service(writes[i].entity).attempts[writes[i].op]
    BY <1>5, <1>8 DEF RetryWrite, MayRetry
  <2>6. writes[i].tries + 1 \in Nat
    BY <1>5
  <2> QED
    BY <1>2, <1>5, <2>1, <2>2, <2>3, <2>4, <2>5, <2>6, WriteMoves
<1> QED
  BY <1>6, <1>7, <1>8

-----------------------------------------------------------------------------
(* PlayerManagement *)

LEMMA FewFinite ==
  ASSUME NEW a, NEW b, NEW c, NEW d, NEW e
  PROVE  IsFiniteSet({a, b, c, d, e})
<1>1. IsFiniteSet({a})
  BY FS_Singleton
<1>2. IsFiniteSet({a} \cup {b})
  BY <1>1, FS_AddElement
<1>3. IsFiniteSet(({a} \cup {b}) \cup {c})
  BY <1>2, FS_AddElement
<1>4. IsFiniteSet((({a} \cup {b}) \cup {c}) \cup {d})
  BY <1>3, FS_AddElement
<1>5. IsFiniteSet(((({a} \cup {b}) \cup {c}) \cup {d}) \cup {e})
  BY <1>4, FS_AddElement
<1>6. ((({a} \cup {b}) \cup {c}) \cup {d}) \cup {e} = {a, b, c, d, e}
  OBVIOUS
<1> QED
  BY <1>5, <1>6

\* What the panel shows of the rows its attempts rest at.
LEMMA PlayersShown ==
  ASSUME DashboardInv, NEW c, DOMAIN c \subseteq Keys, \A x \in DOMAIN c : c[x] \in Data,
         NEW r \in PlayerKeys \cup {NoKey}, Show(c, r), tab' = "player", waits' \subseteq Keys,
         r # NoKey /\ Awaited(c, r) => r \in waits' /\ r \in DOMAIN pending'
  PROVE  list' \in Data \cup {Miss} /\ loading' \in BOOLEAN /\ SpinnerOK'
<1>1. /\ list' = IF r = NoKey THEN Miss ELSE IF Hit(c, r) THEN c[r] ELSE list
      /\ loading' = (r # NoKey /\ Awaited(c, r))
  BY DEF Show
<1>2. list' \in Data \cup {Miss}
  BY <1>1 DEF Hit, DashboardInv, ViewOK
<1>3. loading' \in BOOLEAN
  BY <1>1 DEF Awaited
<1>4. loading' => RowsAwaited'
  BY <1>1 DEF RowsAwaited, PlayerKeys, Entity
<1>5. SpinnerOK'
  BY <1>4 DEF SpinnerOK
<1> QED
  BY <1>2, <1>3, <1>5

LEMMA CacheIs ==
  ASSUME DashboardInv
  PROVE  DOMAIN cache \subseteq Keys /\ \A x \in DOMAIN cache : cache[x] \in Data
BY DEF DashboardInv, CacheInv, CacheTypeOK

\* The pieces a step of PlayerManagement that asks is made of.
LEMMA PlayersAsk ==
  ASSUME DashboardInv, NEW asked \in SUBSET (PlayerKeys \cup {AllTeams}), IsFiniteSet(asked),
         GetWithCache(cache, asked, {}), own' = own
  PROVE  /\ CacheInv' /\ DbGrows
         /\ \A k \in asked : Awaited(cache, k) => k \in DOMAIN pending'
<1>1. asked \in SUBSET Keys
  BY ListKeys DEF PlayerKeys
<1>2. CacheInv' /\ db' = db /\ \A k \in asked : Awaited(cache, k) => k \in DOMAIN pending'
  BY <1>1, AsksInv DEF DashboardInv
<1> QED
  BY <1>2, DbSame DEF DashboardInv, CacheInv

LEMMA RenderInv ==
  ASSUME DashboardInv, tab = "player", NEW p \in {1, 2}, NEW f \in Filters,
         NEW extra \in {{}, {Paginated(pageNo, filter)}}, Render(p, f, extra)
  PROVE  DashboardInv'
<1> DEFINE again == f # "all" /\ p # 1
           q == IF again THEN 1 ELSE p
           rows == {Rest(cache, k) : k \in extra \cup {Paginated(p, f)} \cup
                                           (IF again THEN {Paginated(1, f)} ELSE {})}
           r == Rest(cache, Paginated(q, f))
           asked == (rows \cup {ProbeRest(cache), AllTeams}) \ {NoKey}
           more == {x \in (rows \cup {AllTeams}) \ {NoKey} : Awaited(cache, x)}
<1>1. /\ filter' = f /\ pageNo' = q /\ GetWithCache(cache, asked, {}) /\ Show(cache, r)
      /\ waits' = waits \cup more
      /\ options' = IF Hit(cache, AllTeams) THEN options \cup {"team"} ELSE options
      /\ UNCHANGED <<own, tab, visits, form, writes>>
  BY DEF Render
<1>2. q \in {1, 2} /\ filter \in Filters /\ pageNo \in {1, 2} /\ 1 \in {1, 2}
  BY DEF DashboardInv, ViewOK
<1>3. /\ Paginated(p, f) \in PlayerKeys /\ Paginated(1, f) \in PlayerKeys
      /\ Paginated(q, f) \in PlayerKeys /\ Paginated(pageNo, filter) \in PlayerKeys
  BY <1>2, PlayerLists
<1>4. rows \subseteq {Rest(cache, Paginated(p, f)), Rest(cache, Paginated(1, f)),
                      Rest(cache, Paginated(pageNo, filter))}
  OBVIOUS
<1>5. r \in rows
  OBVIOUS
<1>6. rows \subseteq PlayerKeys \cup {NoKey}
  BY <1>3, <1>4, RestsAtPlayers
<1>7. /\ ProbeRest(cache) \in PlayerKeys /\ AllTeams \in Keys /\ AllTeams # NoKey
      /\ "team" \in Entities
  BY PlayerLists, ListKeys, NoKeyFalls, KeyEntity
<1>8. asked \in SUBSET (PlayerKeys \cup {AllTeams})
  BY <1>6, <1>7
<1>9. IsFiniteSet(asked)
  <2> DEFINE S == {Rest(cache, Paginated(p, f)), Rest(cache, Paginated(1, f)),
                   Rest(cache, Paginated(pageNo, filter)), ProbeRest(cache), AllTeams}
  <2>1. asked \in SUBSET S
    BY <1>4
  <2>2. IsFiniteSet(S)
    BY FewFinite
  <2> HIDE DEF S, asked
  <2> QED
    BY <2>1, <2>2, FS_Subset
<1>10. r # NoKey => r \in asked /\ (Awaited(cache, r) => r \in more)
  BY <1>5
<1>11. more \subseteq Keys
  BY <1>6, <1>7 DEF PlayerKeys
<1> HIDE DEF q, rows, r, asked, more
<1>12. CacheInv' /\ DbGrows /\ \A k \in asked : Awaited(cache, k) => k \in DOMAIN pending'
  BY <1>1, <1>8, <1>9, PlayersAsk
<1>13. WritesOK'
  BY <1>1, <1>12, WritesKept DEF DashboardInv
<1>14. waits' \subseteq Keys /\ tab' = "player"
  BY <1>1, <1>11 DEF DashboardInv, ViewOK
<1>15. r \in PlayerKeys \cup {NoKey}
  BY <1>5, <1>6
<1>16. r # NoKey /\ Awaited(cache, r) => r \in waits' /\ r \in DOMAIN pending'
  BY <1>1, <1>10, <1>12
<1>17. list' \in Data \cup {Miss} /\ loading' \in BOOLEAN /\ SpinnerOK'
  BY <1>1, <1>14, <1>15, <1>16, CacheIs, PlayersShown
<1>18. options' \subseteq Entities
  BY <1>1, <1>7 DEF DashboardInv, ViewOK
<1>19. ViewOK'
  BY <1>1, <1>2, <1>14, <1>17, <1>18 DEF DashboardInv, ViewOK, Entities, Data, Miss, Filters
<1> QED
  BY <1>12, <1>13, <1>17, <1>19 DEF DashboardInv

LEMMA MountPlayersInv ==
  ASSUME DashboardInv, MountPlayers
  PROVE  DashboardInv'
<1> DEFINE r == Rest(cache, Paginated(1, "all"))
           asked == {r, ProbeRest(cache), AllTeams} \ {NoKey}
<1>1. /\ tab' = "player"
      /\ GetWithCache(cache, asked, {}) /\ own' = own
      /\ list' = IF r # NoKey /\ Hit(cache, r) THEN cache[r] ELSE Miss
      /\ loading' = (r # NoKey /\ Awaited(cache, r))
      /\ waits' = {x \in {r, AllTeams} \ {NoKey} : Awaited(cache, x)}
      /\ options' = IF Hit(cache, AllTeams) THEN {"team"} ELSE {}
      /\ form' = Closed /\ filter' = "all" /\ pageNo' = 1
      /\ writes' = [i \in Writes |-> [writes[i] EXCEPT !.mine = FALSE]]
  BY DEF MountPlayers
<1>2. "all" \in Filters /\ 1 \in {1, 2}
  BY DEF Filters
<1>3. r \in PlayerKeys \cup {NoKey}
  BY <1>2, PlayerLists, RestsAtPlayers
<1>4. /\ ProbeRest(cache) \in PlayerKeys /\ AllTeams \in Keys /\ AllTeams # NoKey
      /\ "team" \in Entities
  BY PlayerLists, ListKeys, NoKeyFalls, KeyEntity
<1>5. asked \in SUBSET (PlayerKeys \cup {AllTeams})
  BY <1>3, <1>4
<1>6. IsFiniteSet(asked)
  <2>1. asked \in SUBSET {r, ProbeRest(cache), AllTeams, AllTeams, AllTeams}
    OBVIOUS
  <2> QED
    BY <2>1, FewFinite, FS_Subset
<1>7. waits' \subseteq Keys /\ (r # NoKey => r \in asked)
  BY <1>1, <1>3, <1>4 DEF PlayerKeys
<1>8. r # NoKey /\ Awaited(cache, r) => r \in waits'
  BY <1>1
<1>9. "player" \in Entities
  BY PlayerLists, KeyEntity DEF PlayerKeys
<1> HIDE DEF r, asked
<1>10. CacheInv' /\ DbGrows /\ \A k \in asked : Awaited(cache, k) => k \in DOMAIN pending'
  BY <1>1, <1>5, <1>6, PlayersAsk
<1>11. WritesOK'
  BY <1>1, <1>10, WritesMounted DEF DashboardInv
<1>12. ViewOK'
  <2>1. list' \in Data \cup {Miss}
    BY <1>1, CacheIs DEF Hit
  <2>2. loading' \in BOOLEAN
    BY <1>1 DEF Awaited
  <2>3. options' \subseteq Entities
    BY <1>1, <1>4
  <2>4. form' \in [open : BOOLEAN, editing : BOOLEAN, filled : BOOLEAN]
    BY <1>1 DEF Closed
  <2> QED
    BY <1>1, <1>2, <1>7, <1>9, <2>1, <2>2, <2>3, <2>4 DEF ViewOK, Entities, Data, Miss, Filters
<1>13. SpinnerOK'
  <2>1. loading' => r \in waits' /\ r \in DOMAIN pending' /\ Entity(r) = tab'
    BY <1>1, <1>3, <1>7, <1>8, <1>10 DEF PlayerKeys
  <2>2. loading' => RowsAwaited'
    BY <2>1 DEF RowsAwaited, Entity
  <2> QED
    BY <1>1, <2>2 DEF SpinnerOK, Entity
<1> QED
  BY <1>10, <1>11, <1>12, <1>13 DEF DashboardInv

\* fetchPlayers, once the cache is what the handler has left.
LEMMA FetchPlayersView ==
  ASSUME DashboardInv, tab = "player", tab' = "player",
         NEW c, DOMAIN c \subseteq Keys, \A x \in DOMAIN c : c[x] \in Data,
         NEW k \in PlayerKeys, NEW over, FetchPlayers(c, k, {}, over),
         \A x \in {Rest(c, k)} \ {NoKey} : Awaited(c, x) => x \in DOMAIN pending',
         pageNo' = pageNo, filter' = filter,
         form' \in [open : BOOLEAN, editing : BOOLEAN, filled : BOOLEAN]
  PROVE  ViewOK' /\ SpinnerOK'
<1> DEFINE r == Rest(c, k)
<1>1. /\ Show(c, r) /\ options' = options
      /\ waits' = waits \cup {x \in {r} \ {NoKey} : Awaited(c, x)}
  BY DEF FetchPlayers
<1>2. r \in PlayerKeys \cup {NoKey}
  BY RestsAtPlayers
<1>3. waits' \subseteq Keys
  BY <1>1, <1>2 DEF DashboardInv, ViewOK, PlayerKeys
<1>4. r # NoKey /\ Awaited(c, r) => r \in waits' /\ r \in DOMAIN pending'
  BY <1>1
<1> HIDE DEF r
<1>5. list' \in Data \cup {Miss} /\ loading' \in BOOLEAN /\ SpinnerOK'
  BY <1>1, <1>2, <1>3, <1>4, PlayersShown
<1> QED
  BY <1>1, <1>3, <1>5 DEF DashboardInv, ViewOK, Entities, Data, Miss, Filters

LEMMA RestFinite ==
  ASSUME NEW c, NEW k \in PlayerKeys
  PROVE  /\ {Rest(c, k)} \ {NoKey} \in SUBSET PlayerKeys
         /\ IsFiniteSet({Rest(c, k)} \ {NoKey})
         /\ ({Rest(c, k)} \cup {}) \ {NoKey} = {Rest(c, k)} \ {NoKey}
<1>1. {Rest(c, k)} \ {NoKey} \in SUBSET {Rest(c, k)} /\ IsFiniteSet({Rest(c, k)})
  BY FS_Singleton
<1> QED
  BY <1>1, FS_Subset, RestsAtPlayers

LEMMA FilterApplyInv ==
  ASSUME DashboardInv, HandleFilterApply
  PROVE  DashboardInv'
<1>1. tab = "player" /\ filter \in Filters /\ pageNo \in {1, 2} /\ 1 \in {1, 2}
  BY DEF HandleFilterApply, Here, DashboardInv, ViewOK
<1>2. CASE pageNo # 1
  BY <1>1, <1>2, RenderInv DEF HandleFilterApply
<1>3. CASE pageNo = 1
  <2> DEFINE k == Paginated(1, filter)
             asked == {Rest(cache, k)} \ {NoKey}
  <2>1. FetchPlayers(cache, k, {}, {}) /\ UNCHANGED <<own, tab, visits, form, filter, pageNo, writes>>
    BY <1>3 DEF HandleFilterApply
  <2>2. k \in PlayerKeys
    BY <1>1, PlayerLists
  <2> HIDE DEF k
  <2>3. /\ asked \in SUBSET (PlayerKeys \cup {AllTeams}) /\ IsFiniteSet(asked)
        /\ GetWithCache(cache, asked, {})
    BY <2>1, <2>2, RestFinite DEF FetchPlayers
  <2>4. CacheInv' /\ DbGrows /\ \A x \in asked : Awaited(cache, x) => x \in DOMAIN pending'
    BY <2>1, <2>3, PlayersAsk
  <2>5. WritesOK'
    BY <2>1, <2>4, WritesKept DEF DashboardInv
  <2>6. form' \in [open : BOOLEAN, editing : BOOLEAN, filled : BOOLEAN]
    BY <2>1 DEF DashboardInv, ViewOK
  <2>7. ViewOK' /\ SpinnerOK'
    BY <1>1, <2>1, <2>2, <2>4, <2>6, CacheIs, FetchPlayersView
  <2> QED
    BY <2>4, <2>5, <2>7 DEF DashboardInv
<1> QED
  BY <1>2, <1>3

LEMMA PlayersFetchedInv ==
  ASSUME DashboardInv, NEW k \in DOMAIN pending, PlayersFetched(k)
  PROVE  DashboardInv'
<1> DEFINE c == Filled(k)
           S == IF k \in {Probe, Regular(Probe)} /\ Sendable(c, Whole("all"))
                THEN {Whole("all")} ELSE {}
<1>1. /\ Entity(k) = "player" /\ pending[k].stage = "ok"
      /\ cache' = c /\ pending' = Asked(Released(k), S) /\ gets' = gets + Cardinality(S)
      /\ raced' = raced \ S /\ UNCHANGED <<db, full, own, mishaps>>
      /\ list' = IF k \in waits THEN pending[k].data ELSE list
      /\ loading' = (loading /\ k \notin waits)
      /\ waits' = waits \ {k}
      /\ UNCHANGED <<tab, visits, options, form, filter, pageNo, writes>>
  BY DEF PlayersFetched
<1>2. S \in SUBSET {Whole("all")} /\ IsFiniteSet(S)
  BY FS_Singleton, FS_EmptySet
<1>3. \A x \in S : x \notin DOMAIN c /\ x \notin DOMAIN pending
  BY DEF Sendable, Hit, InFlight
<1>4. S \in SUBSET Keys
  BY <1>2, PlayerLists DEF PlayerKeys
<1> HIDE DEF c, S
<1>5. CacheInv' /\ DbGrows /\ DOMAIN pending' = (DOMAIN pending \ {k}) \cup S
  BY <1>1, <1>2, <1>3, <1>4, SettleInv DEF DashboardInv, c
<1>6. WritesOK'
  BY <1>1, <1>5, WritesKept DEF DashboardInv
<1>7. ViewOK'
  <2>1. pending[k].data \in Data
    BY DEF DashboardInv, CacheInv, CacheTypeOK, Request
  <2> QED
    BY <1>1, <2>1 DEF DashboardInv, ViewOK, Entities, Data, Miss, Filters
<1>8. SpinnerOK'
  <2>1. loading' => RowsAwaited' \/ (tab' = "player" /\ \E i \in Writes : Submitting(i)')
    <3> SUFFICES ASSUME loading'
                 PROVE  RowsAwaited' \/ (tab' = "player" /\ \E i \in Writes : Submitting(i)')
      OBVIOUS
    <3>1. loading /\ k \notin waits
      BY <1>1
    <3>2. CASE RowsAwaited
      BY <1>1, <1>5, <3>1, <3>2 DEF RowsAwaited, Entity
    <3>3. CASE tab = "player" /\ \E i \in Writes : Submitting(i)
      BY <1>1, <3>3 DEF Submitting
    <3> QED
      BY <3>1, <3>2, <3>3 DEF DashboardInv, SpinnerOK
  <2>2. Writes' = Writes
    BY DEF Writes
  <2> QED
    BY <1>1, <2>1, <2>2 DEF DashboardInv, SpinnerOK, Entity
<1> QED
  BY <1>5, <1>6, <1>7, <1>8 DEF DashboardInv

LEMMA PlayersNotFetchedInv ==
  ASSUME DashboardInv, NEW k \in DOMAIN pending, PlayersNotFetched(k)
  PROVE  DashboardInv'
<1> DEFINE r == Rest(cache, Fallback(k))
           S == {x \in {r} \ {NoKey} : Sendable(cache, x)}
<1>1. /\ Entity(k) = "player"
      /\ pending' = Asked(Released(k), S) /\ gets' = gets + Cardinality(S) /\ raced' = raced \ S
      /\ IF k \in waits
         THEN /\ Show(cache, r)
              /\ waits' = (waits \ {k}) \cup {x \in {r} \ {NoKey} : Awaited(cache, x)}
         ELSE UNCHANGED <<list, loading, waits>>
      /\ UNCHANGED <<db, cache, full, own, mishaps, tab, visits, options, form, filter, pageNo, writes>>
  BY DEF PlayersNotFetched
<1>2. k \in PlayerKeys
  BY <1>1 DEF PlayerKeys, DashboardInv, CacheInv, CacheTypeOK
<1>3. r \in PlayerKeys \cup {NoKey} /\ r # k
  BY <1>2, PlayerFalls, RestsAtPlayers, RestsElsewhere
<1>4. S \in SUBSET {r} /\ S \in SUBSET Keys /\ IsFiniteSet({r})
  BY <1>3, FS_Singleton DEF PlayerKeys
<1>5. \A x \in S : x \notin DOMAIN cache /\ x \notin DOMAIN pending
  BY DEF Sendable, Hit, InFlight
<1>6. r # NoKey /\ Awaited(cache, r) => r \in S \/ r \in DOMAIN pending
  BY DEF Awaited, Sendable, InFlight
<1> HIDE DEF r, S
<1>7. IsFiniteSet(S)
  BY <1>4, FS_Subset
<1>8. CacheInv' /\ DbGrows /\ DOMAIN pending' = (DOMAIN pending \ {k}) \cup S
  BY <1>1, <1>4, <1>5, <1>7, SettleInv DEF DashboardInv
<1>9. WritesOK'
  BY <1>1, <1>8, WritesKept DEF DashboardInv
<1>10. r # NoKey /\ Awaited(cache, r) => r \in DOMAIN pending'
  BY <1>3, <1>6, <1>8
<1>11. CASE k \in waits
  <2>1. tab = "player" /\ tab' = "player"
    BY <1>1, <1>11 DEF DashboardInv, SpinnerOK
  <2>2. waits' \subseteq Keys
    BY <1>1, <1>3, <1>11 DEF DashboardInv, ViewOK, PlayerKeys
  <2>3. r # NoKey /\ Awaited(cache, r) => r \in waits'
    BY <1>1, <1>11
  <2>4. list' \in Data \cup {Miss} /\ loading' \in BOOLEAN /\ SpinnerOK'
    BY <1>1, <1>3, <1>10, <1>11, <2>1, <2>2, <2>3, CacheIs, PlayersShown
  <2>5. ViewOK'
    BY <1>1, <2>2, <2>4 DEF DashboardInv, ViewOK, Entities, Data, Miss, Filters
  <2> QED
    BY <1>8, <1>9, <2>4, <2>5 DEF DashboardInv
<1>12. CASE k \notin waits
  <2>1. UNCHANGED <<list, loading, waits>>
    BY <1>1, <1>12
  <2>2. ViewOK'
    BY <1>1, <2>1 DEF DashboardInv, ViewOK, Entities, Data, Miss, Filters
  <2>3. loading' => RowsAwaited' \/ (tab' = "player" /\ \E i \in Writes : Submitting(i)')
    <3> SUFFICES ASSUME loading'
                 PROVE  RowsAwaited' \/ (tab' = "player" /\ \E i \in Writes : Submitting(i)')
      OBVIOUS
    <3>1. CASE RowsAwaited
      BY <1>1, <1>8, <1>12, <2>1, <3>1 DEF RowsAwaited, Entity
    <3>2. CASE tab = "player" /\ \E i \in Writes : Submitting(i)
      BY <1>1, <3>2 DEF Submitting
    <3> QED
      BY <2>1, <3>1, <3>2 DEF DashboardInv, SpinnerOK
  <2>4. Writes' = Writes
    BY DEF Writes
  <2>5. SpinnerOK'
    BY <1>1, <2>1, <2>3, <2>4 DEF DashboardInv, SpinnerOK, Entity
  <2> QED
    BY <1>8, <1>9, <2>2, <2>5 DEF DashboardInv
<1> QED
  BY <1>11, <1>12

LEMMA FormSubmitInv ==
  ASSUME DashboardInv, HandleFormSubmit
  PROVE  DashboardInv'
<1> DEFINE o == IF form.editing THEN "update" ELSE "create"
           k == Paginated(pageNo, filter)
<1>1. /\ tab = "player" /\ loading' = TRUE /\ Start("player", o, k)
      /\ UNCHANGED <<cacheVars, tab, visits, list, options, form, filter, pageNo, waits>>
  BY DEF HandleFormSubmit, Here
<1>2. o \in Ops /\ o # "delete" /\ "player" \in Panels
  BY DEF Ops, Panels
<1>3. k \in Keys /\ Entity(k) = "player"
  BY PlayerLists DEF DashboardInv, ViewOK, PlayerKeys
<1> HIDE DEF o, k
<1>4. CacheInv' /\ DbGrows
  <2>1. "player" \in Entities /\ mishaps' \in 0 .. MaxMishaps
    BY <1>1, <1>3, KeyEntity DEF DashboardInv, CacheInv, CacheTypeOK, cacheVars
  <2> QED
    BY <1>1, <2>1, DbRises DEF DashboardInv, cacheVars
<1>5. /\ WritesOK' /\ \E i \in Writes : Submitting(i)'
  BY <1>1, <1>2, <1>3, <1>4, WritesStart DEF DashboardInv, cacheVars
<1>6. ViewOK'
  BY <1>1 DEF DashboardInv, ViewOK, Entities, Data, Miss, Filters
<1>7. SpinnerOK'
  <2>1. Writes' = Writes
    BY DEF Writes
  <2> QED
    BY <1>1, <1>5, <2>1 DEF DashboardInv, SpinnerOK, Entity
<1> QED
  BY <1>4, <1>5, <1>6, <1>7 DEF DashboardInv

LEMMA PlayerSavedInv ==
  ASSUME DashboardInv, PlayerSaved
  PROVE  DashboardInv'
<1> DEFINE gone == PlayerService.clears
           c == Cleared(gone)
           over == Overtaken(gone)
<1>1. PICK i \in Writes :
        /\ writes[i].entity = "player" /\ writes[i].stage = "ok"
        /\ writes' = [writes EXCEPT ![i].stage = "done"]
        /\ own' = [own EXCEPT !["player"] = IF writes[i].data > @ THEN writes[i].data ELSE @]
        /\ IF writes[i].mine
           THEN /\ FetchPlayers(c, writes[i].key, {}, over)
                /\ form' = IF writes[i].op = "delete" THEN form ELSE Closed
           ELSE /\ GetWithCache(c, {Rest(c, writes[i].key)} \ {NoKey}, over)
                /\ UNCHANGED <<list, loading, options, waits, form>>
        /\ UNCHANGED <<tab, visits, filter, pageNo>>
  BY DEF PlayerSaved
<1> DEFINE w == writes[i]
           k == writes[i].key
           asked == {Rest(c, k)} \ {NoKey}
<1>2. gone = Service("player").clears
  BY DEF Service
<1>3. w.stage \in Stages
  BY <1>1 DEF Stages
<1>4. /\ k \in PlayerKeys /\ "player" \in Entities /\ "player" \in Panels
      /\ w.data \in Data /\ w.data <= db["player"] /\ (w.mine => tab = "player")
  BY <1>1, <1>3, AnsweredWrite DEF PlayerKeys, Panels
<1>5. asked \in SUBSET PlayerKeys /\ IsFiniteSet(asked)
      /\ ({Rest(c, k)} \cup {}) \ {NoKey} = asked
  BY <1>4, RestFinite
<1>6. GetWithCache(c, asked, over)
  BY <1>1, <1>5 DEF FetchPlayers
<1>7. ClearsFor("player", w.data)
  BY <1>1 DEF ClearsFor
<1>8. asked \in SUBSET Keys
  BY <1>5 DEF PlayerKeys
<1>9. DOMAIN c \subseteq Keys /\ \A x \in DOMAIN c : c[x] \in Data
  BY CacheIs DEF Cleared
<1>10. /\ CacheInv' /\ db' = db /\ DOMAIN pending \subseteq DOMAIN pending'
       /\ \A x \in asked : Awaited(c, x) => x \in DOMAIN pending'
  <2> DEFINE n == w.data
  <2>1. n \in Data /\ n <= db["player"] /\ ClearsFor("player", n)
    BY <1>4, <1>7
  <2>2. /\ Cleared(Service("player").clears) = c /\ Overtaken(Service("player").clears) = over
    BY <1>2
  <2>3. GetWithCache(Cleared(Service("player").clears), asked, Overtaken(Service("player").clears))
    BY <1>6, <2>2
  <2> HIDE DEF n, asked, c, over
  <2>4. /\ CacheInv' /\ db' = db /\ DOMAIN pending \subseteq DOMAIN pending'
        /\ \A x \in asked : Awaited(Cleared(Service("player").clears), x) => x \in DOMAIN pending'
    BY <1>4, <1>5, <1>8, <2>1, <2>3, ClearsInv DEF DashboardInv
  <2> QED
    BY <2>2, <2>4
<1>11. DbGrows
  BY <1>10, DbSame DEF DashboardInv, CacheInv
<1>12. WritesOK' /\ \A j \in Writes \ {i} : writes'[j] = writes[j]
  BY <1>1, <1>3, <1>11, WritesEnd DEF DashboardInv
<1>13. ViewOK' /\ SpinnerOK'
  <2>1. CASE w.mine
    <3>1. FetchPlayers(c, k, {}, over) /\ form' \in {form, Closed} /\ tab = "player" /\ tab' = "player"
          /\ pageNo' = pageNo /\ filter' = filter
      BY <1>1, <1>4, <2>1
    <3>2. form' \in [open : BOOLEAN, editing : BOOLEAN, filled : BOOLEAN]
      <4>1. /\ form \in [open : BOOLEAN, editing : BOOLEAN, filled : BOOLEAN]
            /\ Closed \in [open : BOOLEAN, editing : BOOLEAN, filled : BOOLEAN]
        BY DEF DashboardInv, ViewOK, Closed
      <4> QED
        BY <3>1, <4>1
    <3> HIDE DEF c, k, over
    <3> QED
      BY <1>4, <1>9, <1>10, <3>1, <3>2, FetchPlayersView
  <2>2. CASE ~w.mine
    <3>1. UNCHANGED <<list, loading, options, waits, form, tab, filter, pageNo>>
      BY <1>1, <2>2
    <3>2. ViewOK'
      BY <3>1 DEF DashboardInv, ViewOK, Entities, Data, Miss, Filters
    <3>3. \A j \in Writes : Submitting(j) => Submitting(j)'
      BY <1>12, <2>2 DEF Submitting
    <3> QED
      BY <1>10, <3>1, <3>2, <3>3, SpinnerStays DEF DashboardInv
  <2> QED
    BY <2>1, <2>2
<1> QED
  BY <1>10, <1>12, <1>13 DEF DashboardInv

LEMMA PlayerNotSavedInv ==
  ASSUME DashboardInv, PlayerNotSaved
  PROVE  DashboardInv'
<1>1. PICK i \in Writes :
        /\ writes[i].entity = "player" /\ Failed(writes[i])
        /\ writes' = [writes EXCEPT ![i].stage = "done"]
        /\ loading' = (loading /\ ~(writes[i].mine /\ writes[i].op # "delete"))
        /\ UNCHANGED <<cacheVars, tab, visits, list, options, form, filter, pageNo, waits>>
  BY DEF PlayerNotSaved
<1>2. writes[i].stage \in Stages
  BY <1>1, FailedStage
<1>3. CacheInv' /\ DbGrows
  <2>1. "player" \in Entities /\ mishaps' \in 0 .. MaxMishaps
    BY <1>1, <1>2, AnsweredWrite DEF DashboardInv, CacheInv, CacheTypeOK, cacheVars
  <2> QED
    BY <1>1, <2>1, DbRises DEF DashboardInv, cacheVars
<1>4. WritesOK' /\ \A j \in Writes \ {i} : writes'[j] = writes[j]
  BY <1>1, <1>2, <1>3, WritesEnd DEF DashboardInv
<1>5. ViewOK'
  BY <1>1 DEF DashboardInv, ViewOK, Entities, Data, Miss, Filters
<1>6. SpinnerOK'
  <2>1. CASE Submitting(i)
    <3>1. loading' = FALSE
      BY <1>1, <2>1 DEF Submitting
    <3> QED
      BY <1>1, <3>1 DEF DashboardInv, SpinnerOK, Entity
  <2>2. CASE ~Submitting(i)
    <3>1. \A j \in Writes : Submitting(j) => Submitting(j)'
      BY <1>4, <2>2 DEF Submitting
    <3> QED
      BY <1>1, <3>1, SpinnerStays DEF DashboardInv, cacheVars
  <2> QED
    BY <2>1, <2>2
<1> QED
  BY <1>3, <1>4, <1>5, <1>6 DEF DashboardInv

-----------------------------------------------------------------------------
(* The panels, the dashboard and its theorems *)

LEMMA OptionLists ==
  /\ IsFiniteSet({Stadiums, Coaches("all")}) /\ IsFiniteSet({AllTeams}) /\ IsFiniteSet({})
  /\ {Stadiums, Coaches("all")} \subseteq Keys /\ {AllTeams} \subseteq Keys
  /\ \A x \in {Stadiums, Coaches("all"), AllTeams} : Entity(x) # "player"
  /\ "all" \in Filters
<1>1. "all" \in Filters
  BY DEF Filters
<1>2. {Stadiums} \cup {Coaches("all")} = {Stadiums, Coaches("all")}
  OBVIOUS
<1>3. IsFiniteSet({Stadiums} \cup {Coaches("all")})
  BY FS_Singleton, FS_AddElement
<1> QED
  BY <1>1, <1>2, <1>3, FS_Singleton, FS_EmptySet, ListKeys

LEMMA TeamInv ==
  ASSUME DashboardInv, TeamManagement
  PROVE  DashboardInv'
<1>1. AllTeams \in Keys /\ Entity(AllTeams) = "team" /\ "team" \in Panels
      /\ {"create", "update"} \subseteq Ops
  BY ListKeys DEF Panels, Ops
<1>2. CASE MountTeams
  BY <1>1, <1>2, OptionLists, MountInv DEF MountTeams
<1>3. CASE TeamInput \/ TeamSelect \/ EditTeam \/ ResetTeamForm \/ ToggleTeamForm
  BY <1>3, FormStepInv DEF TeamInput, TeamSelect, Choose, EditTeam, ResetTeamForm, ToggleTeamForm
<1>4. CASE HandleCreateTeam \/ HandleUpdateTeam \/ HandleDeleteTeam
  BY <1>1, <1>4, SubmitInv, DeleteInv DEF HandleCreateTeam, HandleUpdateTeam, HandleDeleteTeam
<1>5. CASE TeamSaved \/ TeamNotSaved
  BY <1>1, <1>5, SavedInv, NotSavedInv DEF TeamSaved, TeamNotSaved
<1> QED
  BY <1>2, <1>3, <1>4, <1>5 DEF TeamManagement

LEMMA CoachInv ==
  ASSUME DashboardInv, CoachManagement
  PROVE  DashboardInv'
<1>1. /\ \A f \in Filters : Coaches(f) \in Keys /\ Entity(Coaches(f)) = "coach"
      /\ filter \in Filters /\ "coach" \in Panels /\ {"create", "update"} \subseteq Ops
  BY ListKeys DEF Panels, Ops, DashboardInv, ViewOK
<1>2. CASE MountCoaches
  BY <1>1, <1>2, OptionLists, MountInv DEF MountCoaches
<1>3. CASE \/ CoachInput \/ CoachSelect \/ EditCoach \/ ResetCoachForm \/ ToggleCoachForm
           \/ FilterCoaches
  BY <1>3, FormStepInv DEF CoachInput, CoachSelect, Choose, EditCoach, ResetCoachForm,
                           ToggleCoachForm, FilterCoaches
<1>4. CASE HandleCreateCoach \/ HandleUpdateCoach \/ HandleDeleteCoach
  BY <1>1, <1>4, SubmitInv, DeleteInv DEF HandleCreateCoach, HandleUpdateCoach, HandleDeleteCoach
<1>5. CASE CoachSaved \/ CoachNotSaved
  BY <1>1, <1>5, SavedInv, NotSavedInv DEF CoachSaved, CoachNotSaved
<1>6. CASE ApplyCoachFilters \/ ResetCoachFilters
  BY <1>1, <1>6, FilterInv DEF ApplyCoachFilters, ResetCoachFilters
<1> QED
  BY <1>2, <1>3, <1>4, <1>5, <1>6 DEF CoachManagement

LEMMA SeasonInv ==
  ASSUME DashboardInv, SeasonManagement
  PROVE  DashboardInv'
<1>1. /\ \A f \in Filters : Seasons(f) \in Keys /\ Entity(Seasons(f)) = "season"
      /\ filter \in Filters /\ "season" \in Panels /\ {"create", "update"} \subseteq Ops
  BY ListKeys DEF Panels, Ops, DashboardInv, ViewOK
<1>2. CASE MountSeasons
  BY <1>1, <1>2, OptionLists, MountInv DEF MountSeasons
<1>3. CASE SeasonInput \/ EditSeason \/ ResetSeasonForm \/ ToggleSeasonForm \/ FilterSeasons
  BY <1>3, FormStepInv DEF SeasonInput, EditSeason, ResetSeasonForm, ToggleSeasonForm, FilterSeasons
<1>4. CASE HandleCreateSeason \/ HandleUpdateSeason \/ HandleDeleteSeason
  BY <1>1, <1>4, SubmitInv, DeleteInv DEF HandleCreateSeason, HandleUpdateSeason, HandleDeleteSeason
<1>5. CASE SeasonSaved \/ SeasonNotSaved
  BY <1>1, <1>5, SavedInv, NotSavedInv DEF SeasonSaved, SeasonNotSaved
<1>6. CASE ApplySeasonFilters \/ ResetSeasonFilters
  BY <1>1, <1>6, FilterInv DEF ApplySeasonFilters, ResetSeasonFilters
<1> QED
  BY <1>2, <1>3, <1>4, <1>5, <1>6 DEF SeasonManagement

LEMMA StadiumInv ==
  ASSUME DashboardInv, StadiumManagement
  PROVE  DashboardInv'
<1>1. Stadiums \in Keys /\ Entity(Stadiums) = "stadium" /\ "stadium" \in Panels
      /\ {"create", "update"} \subseteq Ops
  BY ListKeys DEF Panels, Ops
<1>2. CASE MountStadiums
  BY <1>1, <1>2, OptionLists, MountInv DEF MountStadiums
<1>3. CASE StadiumInput \/ EditStadium \/ ResetStadiumForm \/ ToggleStadiumForm
  BY <1>3, FormStepInv DEF StadiumInput, EditStadium, ResetStadiumForm, ToggleStadiumForm
<1>4. CASE HandleCreateStadium \/ HandleUpdateStadium \/ HandleDeleteStadium
  BY <1>1, <1>4, SubmitInv, DeleteInv
     DEF HandleCreateStadium, HandleUpdateStadium, HandleDeleteStadium
<1>5. CASE StadiumSaved \/ StadiumNotSaved
  BY <1>1, <1>5, SavedInv, NotSavedInv DEF StadiumSaved, StadiumNotSaved
<1> QED
  BY <1>2, <1>3, <1>4, <1>5 DEF StadiumManagement

LEMMA PlayerInv ==
  ASSUME DashboardInv, PlayerManagement
  PROVE  DashboardInv'
<1>1. /\ filter \in Filters /\ pageNo \in {1, 2} /\ 1 \in {1, 2} /\ "all" \in Filters
      /\ form \in [open : BOOLEAN, editing : BOOLEAN, filled : BOOLEAN] /\ "player" \in Panels
  BY DEF DashboardInv, ViewOK, Filters, Panels
<1>2. Paginated(pageNo, filter) \in Keys /\ Entity(Paginated(pageNo, filter)) = "player"
  BY <1>1, PlayerLists DEF PlayerKeys
<1>3. CASE MountPlayers
  BY <1>3, MountPlayersInv
<1>4. CASE HandleFilterChange \/ HandleFilterReset \/ HandlePageChange \/ HandlePageSizeChange
  BY <1>1, <1>4, RenderInv DEF HandleFilterChange, HandleFilterReset, HandlePageChange,
                               HandlePageSizeChange, RowsShown, Here
<1>5. CASE HandleFilterApply
  BY <1>5, FilterApplyInv
<1>6. CASE PlayerInput \/ PlayerSelect \/ EditPlayer \/ CancelPlayer
  BY <1>6, FormStepInv DEF PlayerInput, PlayerSelect, Choose, EditPlayer, CancelPlayer
<1>7. CASE CreateClick
  BY <1>1, <1>7, FormInv DEF CreateClick, FormOnly, Closed
<1>8. CASE HandleFormSubmit
  BY <1>8, FormSubmitInv
<1>9. CASE HandleDeleteClick
  BY <1>1, <1>2, <1>9, DeleteInv DEF HandleDeleteClick
<1>10. CASE PlayerSaved \/ PlayerNotSaved
  BY <1>10, PlayerSavedInv, PlayerNotSavedInv
<1> QED
  BY <1>3, <1>4, <1>5, <1>6, <1>7, <1>8, <1>9, <1>10 DEF PlayerManagement

LEMMA DashboardInit == AdminInit => DashboardInv
<1> SUFFICES ASSUME AdminInit PROVE DashboardInv
  OBVIOUS
<1>1. CacheTypeOK /\ Fresh
  <2>1. DOMAIN cache = {} /\ DOMAIN pending = {}
    BY DEF AdminInit, CacheInit
  <2> QED
    BY <2>1, CacheAssumption DEF AdminInit, CacheInit, CacheTypeOK, Fresh, ReadsOwnWrites, Data
<1>2. WritesOK
  BY NoWriteIs DEF AdminInit, WritesOK
<1>3. ViewOK
  BY ListKeys, KeyEntity DEF AdminInit, ViewOK, Closed, Filters, Miss
<1>4. SpinnerOK
  BY DEF AdminInit, SpinnerOK
<1> QED
  BY <1>1, <1>2, <1>3, <1>4 DEF DashboardInv, CacheInv

LEMMA DashboardNextInv ==
  ASSUME DashboardInv, [DashboardNext]_adminVars
  PROVE  DashboardInv'
<1>1. CASE Traffic
  BY <1>1, CacheTrafficInv, FetchedInv, WriteTrafficInv DEF Traffic
<1>2. CASE \E k \in DOMAIN pending : PlayersFetched(k) \/ PlayersNotFetched(k)
  BY <1>2, PlayersFetchedInv, PlayersNotFetchedInv
<1>3. CASE AdminPanels
  BY <1>3, TeamInv, CoachInv, SeasonInv, StadiumInv DEF AdminPanels
<1>4. CASE PlayerManagement
  BY <1>4, PlayerInv
<1>5. CASE UNCHANGED adminVars
  <2>1. UNCHANGED <<cacheVars, tab, list, options, loading, pageNo, waits, writes, form, filter>>
    BY <1>5 DEF adminVars, viewVars
  <2> QED
    BY <2>1, FormInv DEF DashboardInv, ViewOK
<1> QED
  BY <1>1, <1>2, <1>3, <1>4, <1>5 DEF DashboardNext

\* The invariant of the administration, its types included, whichever panels are
\* visited, whatever the network loses and others write.
THEOREM DashboardInvariance == DashboardSpec => []DashboardInv
<1>1. AdminInit => DashboardInv
  BY DashboardInit
<1>2. DashboardInv /\ [DashboardNext]_adminVars => DashboardInv'
  BY DashboardNextInv
<1> QED
  BY <1>1, <1>2, PTL DEF DashboardSpec

\* What an administrator wrote is read back: the cache holds nothing older than
\* the last answered write, but for requests that clearCache overtook.
THEOREM OwnWritesAreRead == DashboardSpec => []ReadsOwnWrites
<1>1. DashboardInv => ReadsOwnWrites
  BY DEF DashboardInv, CacheInv, Fresh
<1> QED
  BY <1>1, DashboardInvariance, PTL

\* A spinner stands for a request that is in flight, or for a submission: no order
\* of answers, failures, fallbacks, filters and tabs leaves it turning for nothing.
THEOREM SpinnersStandForRequests == DashboardSpec => []SpinnerHasRequest
<1>1. DashboardInv => SpinnerHasRequest
  <2> SUFFICES ASSUME DashboardInv PROVE SpinnerHasRequest
    OBVIOUS
  <2>1. AdminTypeOK
    <3>1. CacheTypeOK
      BY DEF DashboardInv, CacheInv
    <3>2. \A i \in Writes : writes[i].stage \in {"unused", "sent", "ok", "refused", "lost", "done"}
      BY DEF DashboardInv, WritesOK, WriteRecord, Stages
    <3> QED
      BY <3>1, <3>2 DEF DashboardInv, ViewOK, AdminTypeOK
  <2> QED
    BY <2>1 DEF DashboardInv, SpinnerOK, RowsAwaited, Submitting, SpinnerHasRequest, InFlight
<1> QED
  BY <1>1, DashboardInvariance, PTL

\* A click changes the data at most as often as its request may be attempted,
\* whichever of the attempts are lost before or after the backend acted.
THEOREM AppliedAsAttempted == DashboardSpec => []AppliedPerClick
<1>1. DashboardInv => AppliedPerClick
  <2> SUFFICES ASSUME DashboardInv, NEW i \in Writes, writes[i] # NoWrite
               PROVE  writes[i].applied <= Service(writes[i].entity).attempts[writes[i].op]
    BY DEF AppliedPerClick
  <2>1. ClickedIn(writes[i], db, tab) /\ writes[i] \in WriteRecord
    BY DEF DashboardInv, WritesOK
  <2> QED
    BY <2>1, AttemptsPositive DEF ClickedIn, WriteRecord
<1> QED
  BY <1>1, DashboardInvariance, PTL
=============================================================================
