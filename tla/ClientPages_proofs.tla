--------------------------- MODULE ClientPages_proofs ---------------------------
(***************************************************************************)
(* Proofs about the hub connections of a tab, the simulation page on top of *)
(* them and the other pages, for every number of connections, visits,       *)
(* events, clicks and requests under way.  Each page has an invariant of    *)
(* its own: a page that is open was open before the step, but for that of   *)
(* a match, which the lists open.                                           *)
(***************************************************************************)
EXTENDS ClientPages, FiniteSetTheorems, SequenceTheorems, WellFoundedInduction, TLAPS

-----------------------------------------------------------------------------
(* The hub connections *)

ConnectionState == {"starting", "connected", "reconnecting", "resuming", "stopping", "closed"}
Connection == [hub : Hubs, st : ConnectionState, global : BOOLEAN, pages : SUBSET PageCallers,
               groups : SUBSET Matches, started : BOOLEAN]
CallPlace == {"idle", "enter", "token", "start", "stopping", "invoked", "decide"}
CallRecord == [todo : Seq(Hubs \cup {"stop", "join"}), at : CallPlace, conn : Nat,
               stops : SUBSET Nat, got : SUBSET Hubs, tries : Nat]

HubsTyped ==
  /\ conns \in Seq(Connection)
  /\ current \in [Hubs -> Nat] /\ flag \in [Hubs -> BOOLEAN]
  /\ pageOn \in PageCallers \cup {Null}
  /\ calls \in [Slots -> CallRecord]
  /\ orphans \subseteq DOMAIN conns

CurrentIsOfHub ==
  \A h \in Hubs : current[h] # Null => current[h] \in DOMAIN conns /\ conns[current[h]].hub = h

\* A connection that is open is the one of its hub, or the service lost hold of it.
OpenIsHeld == \A c \in DOMAIN conns : Open(c) => c \in orphans \/ current[conns[c].hub] = c

\* Somebody waits for each stop().
StopIsAwaited == \A c \in DOMAIN conns : conns[c].st = "stopping" => \E i \in Slots : c \in calls[i].stops

\* A call may start a connection of the hub it is about, and waits for stops only
\* when it stops.
CallOK(r, cs) ==
  /\ r.at = "start" => r.conn \in DOMAIN cs /\ r.todo # <<>> /\ cs[r.conn].hub = Head(r.todo)
  /\ r.stops # {} => r.at = "stopping"
  /\ r.at = "stopping" => r.conn = Null

CallsOK ==
  /\ \A i \in Slots : CallOK(calls[i], conns)
  /\ \A v \in PageCallers : calls[Page(v)].stops = {}

\* After a logout what is still open is being stopped, or was lost hold of.
SignedOutStops ==
  session.user = "out" => \A c \in DOMAIN conns : Open(c) => c \in orphans \/ conns[c].st = "stopping"

HubInv ==
  /\ HubsTyped /\ CurrentIsOfHub /\ OpenIsHeld /\ StopIsAwaited /\ CallsOK
  /\ SignedOutStops /\ FlagHonest

-----------------------------------------------------------------------------
(* Helpers *)

LEMMA HubNames == {"match"} \subseteq Hubs /\ Hubs \subseteq {"match", "notify"} /\ Null = 0
  BY ConnectionsAssumption DEF Null

LEMMA SlotNames ==
  /\ "logout" \in Slots /\ Callers \subseteq Slots /\ Hubs \subseteq Slots
  /\ \A v \in PageCallers : Page(v) \in Slots /\ Page(v) \notin Callers /\ Page(v) # "logout"
  BY ConnectionsAssumption DEF Slots

LEMMA ConnsDomain ==
  ASSUME HubsTyped
  PROVE  /\ Len(conns) \in Nat /\ DOMAIN conns = 1 .. Len(conns)
         /\ conns \in [DOMAIN conns -> Connection]
  BY DEF HubsTyped

LEMMA HubTypes ==
  ASSUME HubInv
  PROVE  /\ conns \in [DOMAIN conns -> Connection] /\ orphans \subseteq DOMAIN conns
         /\ current \in [Hubs -> Nat] /\ flag \in [Hubs -> BOOLEAN]
         /\ pageOn \in PageCallers \cup {Null} /\ calls \in [Slots -> CallRecord]
  BY ConnsDomain DEF HubInv, HubsTyped

LEMMA ConnsMapped ==
  ASSUME HubsTyped, NEW cs \in [DOMAIN conns -> Connection]
  PROVE  cs \in Seq(Connection) /\ DOMAIN cs = DOMAIN conns
  BY ConnsDomain, IsASeq

LEMMA ConnectionSet ==
  ASSUME NEW r \in Connection, NEW s \in ConnectionState
  PROVE  /\ [r EXCEPT !.st = s] \in Connection
         /\ [r EXCEPT !.st = s, !.started = TRUE] \in Connection
         /\ [r EXCEPT !.st = s, !.groups = {}] \in Connection
         /\ [r EXCEPT !.st = s, !.started = TRUE].st = s
         /\ [r EXCEPT !.st = s, !.started = TRUE].hub = r.hub
         /\ [r EXCEPT !.st = s, !.groups = {}].st = s
         /\ [r EXCEPT !.st = s, !.groups = {}].hub = r.hub
         /\ [r EXCEPT !.st = s, !.groups = {}].groups = {}
         /\ [r EXCEPT !.st = s, !.started = TRUE].groups = r.groups
  BY DEF Connection

LEMMA ConnectionClosed ==
  ASSUME NEW r \in Connection
  PROVE  Closed(r) \in Connection /\ Closed(r).hub = r.hub /\ Closed(r).st = "closed" /\ Closed(r).groups = {}
  BY DEF Closed, Connection, ConnectionState

\* The global handler changes nothing else of a connection.
LEMMA GlobalEnsured ==
  ASSUME HubsTyped, CurrentIsOfHub, NEW cs \in [DOMAIN conns -> Connection]
  PROVE  /\ EnsureGlobal(cs) \in [DOMAIN conns -> Connection]
         /\ \A c \in DOMAIN conns :
              /\ EnsureGlobal(cs)[c].hub = cs[c].hub /\ EnsureGlobal(cs)[c].st = cs[c].st
              /\ EnsureGlobal(cs)[c].groups = cs[c].groups
<1>1. CASE current["match"] # Null /\ globalOn
  <2> DEFINE k == current["match"]
             x == [cs[k] EXCEPT !.global = TRUE]
  <2>1. k \in DOMAIN conns
    BY <1>1, HubNames DEF CurrentIsOfHub
  <2>2. x \in Connection /\ x.hub = cs[k].hub /\ x.st = cs[k].st /\ x.groups = cs[k].groups
    BY <2>1 DEF Connection
  <2>3. EnsureGlobal(cs) = [cs EXCEPT ![k] = x]
    BY <1>1 DEF EnsureGlobal
  <2> HIDE DEF k, x
  <2> QED
    BY <2>1, <2>2, <2>3
<1>2. CASE ~(current["match"] # Null /\ globalOn)
  BY <1>2 DEF EnsureGlobal
<1> QED
  BY <1>1, <1>2

\* A call that waits for no stop() and for no start().
Light(r) == r \in CallRecord /\ r.stops = {} /\ r.at \notin {"start", "stopping"}

LEMMA IdleIsLight == Light(Idle)
  BY EmptySeq, HubNames DEF Light, Idle, CallRecord, CallPlace

LEMMA CallIsLight ==
  ASSUME NEW todo \in Seq(Hubs \cup {"stop", "join"}), NEW tries \in Nat
  PROVE  Light(Call(todo, tries))
  BY EmptySeq, HubNames DEF Light, Call, Idle, CallRecord, CallPlace

LEMMA ConnectIsScript == Connect \in Seq(Hubs \cup {"stop", "join"})
  BY HubNames DEF Connect

\* A call that waits for no stop() goes on as a light one.
LEMMA AfterIsLight ==
  ASSUME HubsTyped, NEW i \in Slots, NEW got \in SUBSET Hubs, calls[i].stops = {}
  PROVE  Light(After(i, got))
<1>1. calls[i] \in CallRecord
  BY DEF HubsTyped
<1>2. CASE Len(calls[i].todo) > 1
  <2>1. Tail(calls[i].todo) \in Seq(Hubs \cup {"stop", "join"})
    BY <1>1, <1>2 DEF CallRecord
  <2> QED
    BY <1>1, <1>2, <2>1, HubNames DEF After, Light, CallRecord, CallPlace
<1>3. CASE ~(Len(calls[i].todo) > 1)
  <2>1. After(i, got) \in {Idle, [Idle EXCEPT !.at = "decide", !.got = got, !.tries = calls[i].tries]}
    BY <1>3 DEF After
  <2>2. Light([Idle EXCEPT !.at = "decide", !.got = got, !.tries = calls[i].tries])
    BY <1>1, EmptySeq, HubNames DEF Light, Idle, CallRecord, CallPlace
  <2> QED
    BY <2>1, <2>2, IdleIsLight
<1> QED
  BY <1>2, <1>3

LEMMA ThenIsLight ==
  ASSUME HubsTyped, NEW i \in Slots, calls[i].stops = {}
  PROVE  /\ Light(Then(i))
         /\ \A h \in Hubs : Light(Got(i, h))
<1>1. calls[i].got \in SUBSET Hubs
  BY DEF HubsTyped, CallRecord
<1> QED
  BY <1>1, AfterIsLight DEF Then, Got

\* A call drops its connection only when it waits for no stop().
LEMMA DroppedIsLight ==
  ASSUME HubsTyped, CallsOK, NEW c \in DOMAIN conns
  PROVE  /\ Dropped(c) \in [Slots -> CallRecord]
         /\ \A i \in Slots : \/ Dropped(c)[i] = calls[i]
                             \/ Light(Dropped(c)[i]) /\ calls[i].stops = {}
<1> SUFFICES ASSUME NEW i \in Slots
             PROVE  /\ Dropped(c)[i] \in CallRecord
                    /\ \/ Dropped(c)[i] = calls[i]
                       \/ Light(Dropped(c)[i]) /\ calls[i].stops = {}
  BY DEF Dropped
<1>1. calls[i] \in CallRecord /\ CallOK(calls[i], conns)
  BY DEF HubsTyped, CallsOK
<1>2. CASE calls[i].conn # c
  BY <1>1, <1>2 DEF Dropped
<1>3. CASE calls[i].conn = c
  <2>1. calls[i].stops = {}
    BY <1>1, <1>3, ConnsDomain, HubNames DEF CallOK
  <2>2. Light([Idle EXCEPT !.at = "decide", !.tries = calls[i].tries])
    BY <1>1, EmptySeq, HubNames DEF Light, Idle, CallRecord, CallPlace
  <2>3. Dropped(c)[i] \in {[Idle EXCEPT !.at = "decide", !.tries = calls[i].tries], Then(i)}
    BY <1>3 DEF Dropped
  <2> QED
    BY <2>1, <2>2, <2>3, ThenIsLight DEF Light
<1> QED
  BY <1>2, <1>3

-----------------------------------------------------------------------------
(* Steps that neither build, hold nor stop a connection *)

Quietly ==
  /\ conns' \in [DOMAIN conns -> Connection]
  /\ \A c \in DOMAIN conns :
       /\ conns'[c].hub = conns[c].hub
       /\ conns'[c].st = "stopping" => conns[c].st = "stopping"
       /\ conns'[c].st # "closed" => conns[c].st # "closed"
       /\ conns[c].st = "stopping" => conns'[c].st \in {"stopping", "closed"}
  /\ flag' \in [Hubs -> BOOLEAN] /\ pageOn' \in PageCallers \cup {Null}
  /\ calls' \in [Slots -> CallRecord]
  /\ \A i \in Slots : calls'[i] = calls[i] \/ (Light(calls'[i]) /\ calls[i].stops = {})
  /\ UNCHANGED <<current, orphans>>
  /\ session'.user = "out" => session.user = "out"

LEMMA QuietStep ==
  ASSUME HubInv, Quietly, FlagHonest'
  PROVE  HubInv'
<1>1. conns' \in Seq(Connection) /\ DOMAIN conns' = DOMAIN conns
  <2> DEFINE cs == conns'
  <2>1. cs \in [DOMAIN conns -> Connection]
    BY DEF Quietly
  <2> HIDE DEF cs
  <2>2. cs \in Seq(Connection) /\ DOMAIN cs = DOMAIN conns
    BY <2>1, ConnsMapped DEF HubInv
  <2> QED
    BY <2>2 DEF cs
<1>2. HubsTyped'
  BY <1>1 DEF HubInv, HubsTyped, Quietly
<1>3. CurrentIsOfHub'
  BY <1>1 DEF HubInv, CurrentIsOfHub, Quietly
<1>4. OpenIsHeld'
  BY <1>1 DEF HubInv, OpenIsHeld, Open, Quietly
<1>5. StopIsAwaited'
  BY <1>1 DEF HubInv, StopIsAwaited, Quietly
<1>6. ASSUME NEW i \in Slots PROVE CallOK(calls'[i], conns')
  <2>1. CASE calls'[i] = calls[i]
    BY <1>1, <2>1 DEF HubInv, CallsOK, CallOK, Quietly
  <2>2. CASE Light(calls'[i])
    BY <2>2 DEF Light, CallOK
  <2> QED
    BY <2>1, <2>2 DEF Quietly
<1>7. CallsOK'
  BY <1>6, SlotNames DEF HubInv, CallsOK, Quietly, Light
<1>8. SignedOutStops'
  BY <1>1 DEF HubInv, SignedOutStops, Open, Quietly
<1> QED
  BY <1>2, <1>3, <1>4, <1>5, <1>7, <1>8 DEF HubInv

\* ... and leave every connection's state and flag as they are.
LEMMA StillStep ==
  ASSUME HubInv, Quietly, UNCHANGED flag,
         \A c \in DOMAIN conns : conns'[c].st = conns[c].st
  PROVE  HubInv'
<1>1. FlagHonest'
  BY DEF FlagHonest, HubInv, HubsTyped, CurrentIsOfHub, Quietly
<1> QED
  BY <1>1, QuietStep

\* One call goes on as a light one and the connections are as they were.
LEMMA OneCallStep ==
  ASSUME HubInv, NEW i \in Slots, NEW r, Light(r), calls[i].stops = {},
         calls' = [calls EXCEPT ![i] = r],
         UNCHANGED <<conns, current, flag, pageOn, orphans>>,
         session'.user = "out" => session.user = "out"
  PROVE  HubInv'
<1>1. conns' \in [DOMAIN conns -> Connection]
  BY ConnsDomain DEF HubInv
<1>2. Quietly
  BY <1>1 DEF Quietly, HubInv, HubsTyped, Light
<1> QED
  BY <1>2, StillStep

-----------------------------------------------------------------------------
(* The steps of a call *)

LEMMA StopsOf ==
  ASSUME HubInv, NEW i \in Slots, calls[i].at # "stopping"
  PROVE  calls[i].stops = {}
  BY DEF HubInv, CallsOK, CallOK

LEMMA ConnectEnterKeeps ==
  ASSUME HubInv, NEW i \in Slots, NEW h \in Hubs, ConnectEnter(i, h)
  PROVE  HubInv'
<1>1. calls[i].stops = {}
  BY StopsOf DEF ConnectEnter, Head1
<1>2. Light([calls[i] EXCEPT !.at = "token"])
  BY <1>1 DEF HubInv, HubsTyped, Light, CallRecord, CallPlace
<1>3. Light(Got(i, h))
  BY <1>1, ThenIsLight DEF HubInv
<1>4. PICK r \in {Got(i, h), [calls[i] EXCEPT !.at = "token"]} : calls' = [calls EXCEPT ![i] = r]
  BY DEF ConnectEnter, HubInv, HubsTyped
<1> QED
  BY <1>1, <1>2, <1>3, <1>4, OneCallStep DEF ConnectEnter

LEMMA NoTokenKeeps ==
  ASSUME HubInv, NEW i \in Slots, NEW h \in Hubs, NoToken(i, h)
  PROVE  HubInv'
<1>1. calls[i].stops = {}
  BY StopsOf DEF NoToken, Head1
<1>2. session'.user = "out" => session.user = "out"
  BY DEF NoToken, Turns
<1>3. calls' = [calls EXCEPT ![i] = Then(i)] /\ UNCHANGED <<conns, current, flag, pageOn, orphans>>
  BY DEF NoToken
<1> QED
  BY <1>1, <1>2, <1>3, ThenIsLight, OneCallStep DEF HubInv

LEMMA DisconnectedKeeps ==
  ASSUME HubInv, NEW i \in Slots, Disconnected(i)
  PROVE  HubInv'
  BY ThenIsLight, OneCallStep DEF Disconnected, HubInv

\* start() resolves or rejects, the connection is lost, or found again: the flag
\* follows, for the hub whose connection it is.
LEMMA FlagFollows ==
  ASSUME HubInv, Quietly, NEW c \in DOMAIN conns, Open(c), conns[c].st # "stopping",
         \A d \in DOMAIN conns \ {c} : conns'[d].st = conns[d].st,
         \/ conns'[c].st = "connected" /\ flag' = [flag EXCEPT ![conns[c].hub] = TRUE]
         \/ /\ conns'[c].st \in {"reconnecting", "closed"}
            /\ flag' = [flag EXCEPT ![conns[c].hub] = FALSE]
  PROVE  HubInv'
<1>1. conns[c].hub \in Hubs
  BY ConnsDomain DEF HubInv, Connection
<1>2. ASSUME NEW h \in Hubs, \A d \in orphans : conns[d].hub # h
      PROVE  /\ flag'[h] => current[h] # Null /\ conns'[current[h]].st \in {"connected", "stopping"}
             /\ current[h] # Null /\ conns'[current[h]].st = "connected" => flag'[h]
  <2>1. CASE h = conns[c].hub
    <3>1. current[h] = c /\ c # Null
      BY <1>2, <2>1, ConnsDomain, HubNames DEF HubInv, OpenIsHeld, HubsTyped
    <3> QED
      BY <1>1, <2>1, <3>1 DEF HubInv, HubsTyped
  <2>2. CASE h # conns[c].hub
    <3>1. flag'[h] = flag[h]
      BY <1>1, <2>2 DEF HubInv, HubsTyped
    <3>2. current[h] # Null => current[h] \in DOMAIN conns \ {c}
      BY <2>2 DEF HubInv, CurrentIsOfHub
    <3> QED
      BY <1>2, <3>1, <3>2 DEF HubInv, FlagHonest
  <2> QED
    BY <2>1, <2>2
<1>3. current' = current /\ orphans' = orphans
  BY DEF Quietly
<1>4. \A d \in orphans : d \in DOMAIN conns /\ conns'[d].hub = conns[d].hub
  BY DEF HubInv, HubsTyped, Quietly
<1>5. FlagHonest'
  BY <1>2, <1>3, <1>4 DEF FlagHonest
<1> QED
  BY <1>5, QuietStep

LEMMA StartedKeeps ==
  ASSUME HubInv, NEW i \in Slots, NEW h \in Hubs, Started(i, h)
  PROVE  HubInv'
<1> DEFINE c == calls[i].conn
           x == [conns[c] EXCEPT !.st = "connected", !.started = TRUE]
           up == [conns EXCEPT ![c] = x]
<1>1. c \in DOMAIN conns /\ conns[c].hub = h /\ conns[c].st = "starting"
  BY DEF Started, Head1, HubInv, CallsOK, CallOK
<1>2. x \in Connection /\ x.hub = h /\ x.st = "connected"
  BY <1>1, ConnsDomain, ConnectionSet DEF HubInv, ConnectionState
<1>3. conns' \in {up, EnsureGlobal(up)}
  BY DEF Started
<1>4. calls[i].stops = {}
  BY StopsOf DEF Started, Head1
<1>5. calls' = [calls EXCEPT ![i] = Got(i, h)] /\ Light(Got(i, h))
  BY <1>4, ThenIsLight DEF Started, HubInv
<1>6. flag' = [flag EXCEPT ![h] = TRUE] /\ UNCHANGED <<session, current, pageOn, orphans>>
  BY DEF Started
<1> HIDE DEF c, x
<1>7. /\ up \in [DOMAIN conns -> Connection]
      /\ \A d \in DOMAIN conns : up[d].hub = conns[d].hub
      /\ \A d \in DOMAIN conns \ {c} : up[d].st = conns[d].st
      /\ up[c].st = "connected"
  BY <1>1, <1>2, ConnsDomain DEF HubInv
<1> HIDE DEF up
<1>8. /\ conns' \in [DOMAIN conns -> Connection]
      /\ \A d \in DOMAIN conns : conns'[d].hub = up[d].hub /\ conns'[d].st = up[d].st
  BY <1>3, <1>7, GlobalEnsured DEF HubInv
<1>9. \A j \in Slots : calls'[j] = calls[j] \/ (Light(calls'[j]) /\ calls[j].stops = {})
  BY <1>4, <1>5 DEF HubInv, HubsTyped
<1>10. calls' \in [Slots -> CallRecord]
  BY <1>5 DEF HubInv, HubsTyped, Light
<1>11. Quietly
  BY <1>1, <1>6, <1>7, <1>8, <1>9, <1>10 DEF Quietly, HubInv, HubsTyped
<1> QED
  BY <1>1, <1>6, <1>7, <1>8, <1>11, FlagFollows DEF Open

LEMMA StartFailedKeeps ==
  ASSUME HubInv, NEW i \in Slots, NEW h \in Hubs, StartFailed(i, h)
  PROVE  HubInv'
<1> DEFINE c == calls[i].conn
<1>1. c \in DOMAIN conns /\ conns[c].hub = h /\ conns[c].st = "starting"
  BY DEF StartFailed, Head1, HubInv, CallsOK, CallOK
<1>2. /\ conns' \in [DOMAIN conns -> Connection]
      /\ \A d \in DOMAIN conns : conns'[d].hub = conns[d].hub
      /\ \A d \in DOMAIN conns \ {c} : conns'[d].st = conns[d].st
      /\ conns'[c].st = "closed"
  BY <1>1, HubTypes, ConnectionClosed DEF StartFailed
<1>3. calls[i].stops = {}
  BY StopsOf DEF StartFailed, Head1
<1>4. calls' = [calls EXCEPT ![i] = Then(i)] /\ Light(Then(i))
  BY <1>3, ThenIsLight DEF StartFailed, HubInv
<1> HIDE DEF c
<1>5. Quietly
  BY <1>1, <1>2, <1>3, <1>4 DEF Quietly, StartFailed, HubInv, HubsTyped, Light
<1> QED
  BY <1>1, <1>2, <1>5, FlagFollows DEF StartFailed, Open

-----------------------------------------------------------------------------
(* What a connection does by itself *)

LEMMA LostKeeps ==
  ASSUME HubInv, NEW c \in DOMAIN conns, Lost(c)
  PROVE  HubInv'
<1> DEFINE x == [conns[c] EXCEPT !.st = "reconnecting", !.groups = {}]
<1>1. x \in Connection /\ x.hub = conns[c].hub /\ x.st = "reconnecting"
  BY ConnsDomain, ConnectionSet DEF HubInv, ConnectionState
<1>2. conns' = [conns EXCEPT ![c] = x]
  BY DEF Lost
<1> HIDE DEF x
<1>3. /\ conns' \in [DOMAIN conns -> Connection]
      /\ \A d \in DOMAIN conns : conns'[d].hub = conns[d].hub
      /\ \A d \in DOMAIN conns \ {c} : conns'[d].st = conns[d].st
      /\ conns'[c].st = "reconnecting"
  BY <1>1, <1>2, ConnsDomain DEF HubInv
<1>4. conns[c].st = "connected" /\ conns[c].hub \in Hubs
  BY ConnsDomain DEF Lost, HubInv, Connection
<1>5. /\ calls' = Dropped(c)
      /\ flag' = [flag EXCEPT ![conns[c].hub] = FALSE]
      /\ UNCHANGED <<session, current, pageOn, orphans>>
  BY DEF Lost
<1>6. /\ calls' \in [Slots -> CallRecord]
      /\ \A j \in Slots : calls'[j] = calls[j] \/ (Light(calls'[j]) /\ calls[j].stops = {})
  BY <1>5, DroppedIsLight DEF HubInv
<1>7. Quietly
  BY <1>3, <1>4, <1>5, <1>6 DEF Quietly, HubInv, HubsTyped
<1> QED
  BY <1>3, <1>4, <1>5, <1>7, FlagFollows DEF Open

LEMMA RetryingKeeps ==
  ASSUME HubInv, NEW c \in DOMAIN conns, Retrying(c)
  PROVE  HubInv'
<1>1. /\ conns' \in [DOMAIN conns -> Connection]
      /\ \A d \in DOMAIN conns : conns'[d].hub = conns[d].hub
      /\ \A d \in DOMAIN conns \ {c} : conns'[d].st = conns[d].st
      /\ conns[c].st = "reconnecting" /\ conns'[c].st = "resuming"
  BY HubTypes DEF Retrying, Connection, ConnectionState
<1>2. UNCHANGED <<session, current, flag, pageOn, calls, orphans>>
  BY DEF Retrying
<1>3. Quietly
  BY <1>1, <1>2 DEF Quietly, HubInv, HubsTyped
<1>4. \A d \in orphans : d \in DOMAIN conns /\ conns'[d].hub = conns[d].hub
  BY <1>1, HubTypes
<1>5. \A h \in Hubs : current[h] # Null => current[h] \in DOMAIN conns
  BY DEF HubInv, CurrentIsOfHub
<1>6. FlagHonest /\ current' = current /\ flag' = flag /\ orphans' = orphans
  BY <1>2 DEF HubInv
<1>7. FlagHonest'
  BY <1>1, <1>4, <1>5, <1>6 DEF FlagHonest
<1> QED
  BY <1>3, <1>7, QuietStep

LEMMA ReconnectedKeeps ==
  ASSUME HubInv, NEW c \in DOMAIN conns, Reconnected(c)
  PROVE  HubInv'
<1> DEFINE up == [conns EXCEPT ![c].st = "connected"]
<1>1. /\ up \in [DOMAIN conns -> Connection]
      /\ \A d \in DOMAIN conns : up[d].hub = conns[d].hub
      /\ \A d \in DOMAIN conns \ {c} : up[d].st = conns[d].st
      /\ up[c].st = "connected"
  BY HubTypes DEF Connection, ConnectionState
<1>2. conns' \in {up, EnsureGlobal(up)}
  BY DEF Reconnected
<1> HIDE DEF up
<1>3. /\ conns' \in [DOMAIN conns -> Connection]
      /\ \A d \in DOMAIN conns : conns'[d].hub = up[d].hub /\ conns'[d].st = up[d].st
  BY <1>1, <1>2, GlobalEnsured DEF HubInv
<1>4. conns[c].st = "resuming" /\ conns[c].hub \in Hubs
  BY ConnsDomain DEF Reconnected, HubInv, Connection
<1>5. /\ flag' = [flag EXCEPT ![conns[c].hub] = TRUE]
      /\ UNCHANGED <<session, current, pageOn, calls, orphans>>
  BY DEF Reconnected
<1>6. Quietly
  BY <1>1, <1>3, <1>4, <1>5, HubTypes DEF Quietly
<1> QED
  BY <1>1, <1>3, <1>4, <1>5, <1>6, FlagFollows DEF Open

LEMMA GaveUpKeeps ==
  ASSUME HubInv, NEW c \in DOMAIN conns, GaveUp(c)
  PROVE  HubInv'
<1>1. /\ conns' \in [DOMAIN conns -> Connection]
      /\ \A d \in DOMAIN conns : conns'[d].hub = conns[d].hub
      /\ \A d \in DOMAIN conns \ {c} : conns'[d].st = conns[d].st
      /\ conns'[c].st = "closed"
  BY HubTypes, ConnectionClosed DEF GaveUp
<1>2. conns[c].st \in {"reconnecting", "resuming"} /\ conns[c].hub \in Hubs
  BY ConnsDomain DEF GaveUp, HubInv, Connection
<1>3. /\ flag' = [flag EXCEPT ![conns[c].hub] = FALSE]
      /\ UNCHANGED <<session, current, pageOn, calls, orphans>>
  BY DEF GaveUp
<1>4. Quietly
  BY <1>1, <1>2, <1>3, HubTypes DEF Quietly
<1> QED
  BY <1>1, <1>2, <1>3, <1>4, FlagFollows DEF Open

-----------------------------------------------------------------------------
(* Who calls *)

LEMMA TimerFiresKeeps ==
  ASSUME HubInv, NEW h \in Hubs, TimerFires(h)
  PROVE  HubInv'
<1>1. h \in Slots /\ calls[h].stops = {}
  BY SlotNames DEF TimerFires, Idle
<1>2. Light(calls[h])
  BY IdleIsLight DEF TimerFires
<1>3. Light(Call(<<h>>, 0))
  <2>1. <<h>> \in Seq(Hubs \cup {"stop", "join"})
    OBVIOUS
  <2> QED
    BY <2>1, CallIsLight
<1>4. PICK r \in {calls[h], Call(<<h>>, 0)} : calls' = [calls EXCEPT ![h] = r]
  BY <1>1 DEF TimerFires, HubInv, HubsTyped
<1> QED
  BY <1>1, <1>2, <1>3, <1>4, OneCallStep DEF TimerFires

LEMMA BeginKeeps ==
  ASSUME HubInv, NEW i \in Slots, calls[i].at # "stopping",
         NEW tries \in Nat, Begin(i, Connect, tries)
  PROVE  HubInv'
<1>1. Light(Call(Connect, tries))
  BY CallIsLight, ConnectIsScript
<1> QED
  BY <1>1, StopsOf, OneCallStep DEF Begin

LEMMA CallerBegins ==
  ASSUME HubInv, NEW i \in Callers,
         ConnectInstantly(i) \/ InstantAgain(i) \/ EnsureConnection(i)
  PROVE  HubInv'
<1>1. i \in Slots /\ MaxTries \in Nat
  BY SlotNames, ConnectionsAssumption
<1>2. CASE ConnectInstantly(i)
  BY <1>1, <1>2, BeginKeeps DEF ConnectInstantly, Idle
<1>3. CASE EnsureConnection(i)
  BY <1>1, <1>3, BeginKeeps DEF EnsureConnection, Idle
<1>4. CASE InstantAgain(i)
  <2>1. calls[i].tries + 1 \in Nat
    BY <1>1 DEF HubInv, HubsTyped, CallRecord
  <2> QED
    BY <1>1, <1>4, <2>1, BeginKeeps DEF InstantAgain
<1> QED
  BY <1>2, <1>3, <1>4

LEMMA CallerDoneKeeps ==
  ASSUME HubInv, NEW i \in Callers, CallerDone(i)
  PROVE  HubInv'
<1>1. i \in Slots /\ calls[i].stops = {}
  BY SlotNames, StopsOf DEF CallerDone
<1>2. conns' \in {conns, EnsureGlobal(conns)}
  BY DEF CallerDone
<1>3. /\ conns' \in [DOMAIN conns -> Connection]
      /\ \A d \in DOMAIN conns : conns'[d].hub = conns[d].hub /\ conns'[d].st = conns[d].st
  BY <1>2, ConnsDomain, GlobalEnsured DEF HubInv
<1>4. /\ calls' = [calls EXCEPT ![i] = Idle]
      /\ UNCHANGED <<session, current, flag, pageOn, orphans>>
  BY DEF CallerDone
<1>5. Quietly
  BY <1>1, <1>3, <1>4, IdleIsLight DEF Quietly, HubInv, HubsTyped, Light
<1> QED
  BY <1>3, <1>4, <1>5, StillStep

LEMMA TurnKeeps ==
  ASSUME HubInv, Lapse \/ SignIn
  PROVE  HubInv'
<1>1. session'.user = "out" => session.user = "out"
  BY DEF Lapse, SignIn, Turns
<1>2. UNCHANGED <<conns, current, flag, pageOn, calls, orphans>>
  BY DEF Lapse, SignIn
<1>3. Quietly
  BY <1>1, <1>2, HubTypes DEF Quietly
<1> QED
  BY <1>2, <1>3, StillStep

-----------------------------------------------------------------------------
(* Steps that build or stop a connection *)

\* The connection that Build replaces is lost hold of if it is open, so that a flag
\* that is raised has no connection of its own any more.
LEMMA BuildKeeps ==
  ASSUME HubInv, NEW i \in Slots, NEW h \in Hubs, Build(i, h)
  PROVE  HubInv'
<1> DEFINE n == Len(conns) + 1
           r == [calls[i] EXCEPT !.at = "start", !.conn = n]
<1>1. Conn(h) \in Connection /\ Conn(h).hub = h /\ Conn(h).st = "starting"
  BY DEF Conn, Connection, ConnectionState
<1>2. /\ conns' \in Seq(Connection) /\ DOMAIN conns' = DOMAIN conns \cup {n}
      /\ n \notin DOMAIN conns /\ n \in Nat /\ n # Null
      /\ \A d \in DOMAIN conns : conns'[d] = conns[d]
      /\ conns'[n] = Conn(h)
      /\ Len(conns') = n
  BY <1>1, ConnsDomain, HubNames DEF Build, HubInv, HubsTyped
<1>3. calls[i] \in CallRecord /\ calls[i].at = "token" /\ calls[i].todo # <<>> /\ Head(calls[i].todo) = h
  BY HubTypes DEF Build, Head1
<1>4. calls[i].stops = {}
  BY <1>3, StopsOf
<1>5. calls' = [calls EXCEPT ![i] = r]
  BY <1>2 DEF Build
<1>6. /\ r \in CallRecord /\ r.at = "start" /\ r.conn = n /\ r.stops = {} /\ r.todo = calls[i].todo
  BY <1>2, <1>3, <1>4 DEF CallRecord, CallPlace
<1>7. /\ current' = [current EXCEPT ![h] = n]
      /\ UNCHANGED <<session, flag, pageOn>> /\ auth
      /\ orphans' = IF current[h] # Null /\ Open(current[h]) THEN orphans \cup {current[h]} ELSE orphans
  BY <1>2 DEF Build
<1> HIDE DEF n, r
<1>8. /\ current[h] # Null => current[h] \in DOMAIN conns
      /\ \A d \in DOMAIN conns : conns[d].hub \in Hubs
  BY HubTypes DEF HubInv, CurrentIsOfHub, Connection
<1>9. HubsTyped'
  BY <1>2, <1>5, <1>6, <1>7, <1>8, HubTypes DEF HubsTyped
<1>10. CurrentIsOfHub'
  BY <1>1, <1>2, <1>7, HubTypes DEF HubInv, CurrentIsOfHub
<1>11. OpenIsHeld'
  <2> SUFFICES ASSUME NEW d \in DOMAIN conns', conns'[d].st # "closed"
               PROVE  d \in orphans' \/ current'[conns'[d].hub] = d
    BY DEF OpenIsHeld, Open
  <2>1. CASE d = n
    BY <1>1, <1>2, <1>7, <2>1, HubTypes
  <2>2. CASE d # n
    <3>1. d \in DOMAIN conns /\ conns'[d] = conns[d]
      BY <1>2, <2>2
    <3>2. d \in orphans \/ (current[conns[d].hub] = d /\ Open(d))
      BY <3>1 DEF HubInv, OpenIsHeld, Open
    <3>3. CASE conns[d].hub = h
      BY <1>2, <1>7, <3>1, <3>2, <3>3, HubTypes, ConnsDomain, HubNames DEF HubInv
    <3>4. CASE conns[d].hub # h
      BY <1>7, <1>8, <3>1, <3>2, <3>4, HubTypes
    <3> QED
      BY <3>3, <3>4
  <2> QED
    BY <2>1, <2>2
<1>12. StopIsAwaited'
  <2>1. \A j \in Slots : calls[j].stops \subseteq calls'[j].stops
    BY <1>4, <1>5, <1>6, HubTypes
  <2> QED
    BY <1>1, <1>2, <2>1 DEF HubInv, StopIsAwaited
<1>13. CallsOK'
  <2>1. CallOK(r, conns')
    BY <1>1, <1>2, <1>3, <1>6 DEF CallOK
  <2>2. ASSUME NEW j \in Slots, j # i PROVE CallOK(calls'[j], conns')
    BY <1>2, <1>5, <2>2, HubTypes DEF HubInv, CallsOK, CallOK
  <2>3. \A j \in Slots : CallOK(calls'[j], conns')
    BY <1>5, <2>1, <2>2, HubTypes
  <2> QED
    BY <1>5, <1>6, <2>3, SlotNames, HubTypes DEF HubInv, CallsOK
<1>14. SignedOutStops'
  BY <1>7 DEF SignedOutStops, auth
<1>15. FlagHonest'
  <2> SUFFICES ASSUME NEW g \in Hubs, \A d \in orphans' : conns'[d].hub # g
               PROVE  /\ flag[g] => current'[g] # Null /\ conns'[current'[g]].st \in {"connected", "stopping"}
                      /\ current'[g] # Null /\ conns'[current'[g]].st = "connected" => flag[g]
    BY <1>7 DEF FlagHonest
  <2>1. \A d \in orphans : conns[d].hub # g
    BY <1>2, <1>7, HubTypes
  <2>2. CASE g = h
    <3>1. ~flag[h]
      <4> SUFFICES ASSUME flag[h] PROVE FALSE
        OBVIOUS
      <4>1. current[h] # Null /\ Open(current[h])
        BY <2>1, <2>2 DEF HubInv, FlagHonest, Open
      <4> QED
        BY <1>2, <1>7, <2>2, <4>1 DEF HubInv, CurrentIsOfHub
    <3> QED
      BY <1>1, <1>2, <1>7, <2>2, <3>1, HubTypes
  <2>3. CASE g # h
    BY <1>2, <1>7, <2>1, <2>3, HubTypes DEF HubInv, FlagHonest, CurrentIsOfHub
  <2> QED
    BY <2>2, <2>3
<1> QED
  BY <1>9, <1>10, <1>11, <1>12, <1>13, <1>14, <1>15 DEF HubInv

\* Both hubs are stopped: whatever the service holds is closed or being stopped, and
\* the call waits for it.
LEMMA StopBothKeeps ==
  ASSUME HubInv, NEW i \in Slots, \A v \in PageCallers : Page(v) # i,
         NEW then \in Seq(Hubs \cup {"stop", "join"}),
         StopBoth(i, then)
  PROVE  HubInv'
<1> DEFINE held == {current[h] : h \in Hubs} \ {Null}
           stops == {c \in held : Open(c)} \cup calls[i].stops
           r == [Call(<<"stop">> \o then, MaxTries) EXCEPT !.at = "stopping",
                   !.stops = @ \cup {c \in held : Open(c)} \cup calls[i].stops]
<1>1. /\ conns' = [c \in DOMAIN conns |-> IF c \in held /\ Open(c) THEN [conns[c] EXCEPT !.st = "stopping"]
                                          ELSE conns[c]]
      /\ calls' = [calls EXCEPT ![i] = r]
      /\ UNCHANGED <<pageOn, orphans>>
  BY DEF StopBoth
<1>2. /\ current' = [h \in Hubs |-> IF current[h] # Null /\ ~Open(current[h]) THEN Null ELSE current[h]]
      /\ \A h \in Hubs : flag'[h] = (flag[h] /\ ~(current[h] # Null /\ ~Open(current[h])))
      /\ flag' \in [Hubs -> BOOLEAN]
  BY HubTypes DEF StopBoth
<1>3. /\ conns' \in [DOMAIN conns -> Connection]
      /\ \A d \in DOMAIN conns : /\ conns'[d].hub = conns[d].hub
                                 /\ conns'[d].groups = conns[d].groups
                                 /\ conns'[d].st = IF d \in held /\ Open(d) THEN "stopping" ELSE conns[d].st
  BY <1>1, HubTypes DEF Connection, ConnectionState
<1>4. held \subseteq DOMAIN conns /\ held \subseteq Nat
  BY HubTypes DEF HubInv, CurrentIsOfHub
<1>5. r \in CallRecord /\ r.at = "stopping" /\ r.conn = Null /\ r.stops = stops
  <2>1. Light(Call(<<"stop">> \o then, MaxTries))
    <3>1. <<"stop">> \o then \in Seq(Hubs \cup {"stop", "join"})
      BY ConcatProperties
    <3> QED
      BY <3>1, CallIsLight, ConnectionsAssumption
  <2>2. Call(<<"stop">> \o then, MaxTries).conn = Null
    BY DEF Call, Idle
  <2>3. calls[i].stops \in SUBSET Nat
    BY HubTypes DEF CallRecord
  <2> QED
    BY <1>4, <2>1, <2>2, <2>3 DEF Light, CallRecord, CallPlace
<1>6. \A d \in DOMAIN conns : d \in orphans \/ ~Open(d) \/ d \in held
  BY ConnsDomain, HubTypes, HubNames DEF HubInv, OpenIsHeld, Connection
<1>7. conns' \in Seq(Connection) /\ DOMAIN conns' = DOMAIN conns
  <2> DEFINE cs == conns'
  <2>1. cs \in [DOMAIN conns -> Connection]
    BY <1>3
  <2> HIDE DEF cs
  <2>2. cs \in Seq(Connection) /\ DOMAIN cs = DOMAIN conns
    BY <2>1, ConnsMapped DEF HubInv
  <2> QED
    BY <2>2 DEF cs
<1>8. \A h \in Hubs : current[h] # Null => current[h] \in held /\ conns[current[h]].hub = h
  BY DEF HubInv, CurrentIsOfHub
<1> HIDE DEF held, stops, r
<1>9. HubsTyped'
  BY <1>1, <1>2, <1>5, <1>7, HubTypes, HubNames DEF HubsTyped
<1>10. CurrentIsOfHub'
  BY <1>2, <1>3, <1>7 DEF HubInv, CurrentIsOfHub
<1>11. OpenIsHeld'
  BY <1>1, <1>2, <1>3, <1>7, HubTypes DEF HubInv, OpenIsHeld, Open, Connection
<1>12. StopIsAwaited'
  <2> SUFFICES ASSUME NEW c \in DOMAIN conns, conns'[c].st = "stopping"
               PROVE  \E j \in Slots : c \in calls'[j].stops
    BY <1>7 DEF StopIsAwaited
  <2>1. calls'[i].stops = stops
    BY <1>1, <1>5, HubTypes
  <2>2. CASE c \in held /\ Open(c)
    BY <2>1, <2>2 DEF stops
  <2>3. CASE ~(c \in held /\ Open(c))
    <3>1. PICK j \in Slots : c \in calls[j].stops
      BY <1>3, <2>3 DEF HubInv, StopIsAwaited
    <3>2. CASE j = i
      BY <2>1, <3>1, <3>2 DEF stops
    <3>3. CASE j # i
      BY <1>1, <3>1, <3>3, HubTypes
    <3> QED
      BY <3>2, <3>3
  <2> QED
    BY <2>2, <2>3
<1>13. CallsOK'
  <2>1. CallOK(r, conns')
    BY <1>5 DEF CallOK
  <2>2. ASSUME NEW j \in Slots, j # i PROVE CallOK(calls'[j], conns')
    BY <1>1, <1>3, <1>7, <2>2, HubTypes DEF HubInv, CallsOK, CallOK
  <2>3. \A j \in Slots : CallOK(calls'[j], conns')
    BY <1>1, <2>1, <2>2, HubTypes
  <2>4. \A v \in PageCallers : calls'[Page(v)] = calls[Page(v)]
    BY <1>1, HubTypes
  <2> QED
    BY <2>3, <2>4 DEF HubInv, CallsOK
<1>14. SignedOutStops'
  BY <1>1, <1>3, <1>6, <1>7 DEF SignedOutStops, Open
<1>15. FlagHonest'
  <2>1. \A d \in orphans : d \in DOMAIN conns /\ conns'[d].hub = conns[d].hub
    BY <1>3, HubTypes
  <2>2. \A d \in held : Open(d) <=> conns[d].st # "closed"
    BY DEF Open
  <2>3. ASSUME NEW h \in Hubs, \A d \in orphans' : conns'[d].hub # h
        PROVE  /\ flag'[h] => current'[h] # Null /\ conns'[current'[h]].st \in {"connected", "stopping"}
               /\ current'[h] # Null /\ conns'[current'[h]].st = "connected" => flag'[h]
    <3>1. \A d \in orphans : conns[d].hub # h
      BY <1>1, <2>1, <2>3
    <3>2. CASE current[h] = Null
      BY <1>2, <3>1, <3>2 DEF HubInv, FlagHonest
    <3>3. CASE current[h] # Null /\ ~Open(current[h])
      BY <1>2, <3>3
    <3>4. CASE current[h] # Null /\ Open(current[h])
      <4>1. current'[h] = current[h] /\ flag'[h] = flag[h]
        BY <1>2, <3>4, HubTypes
      <4>2. conns'[current[h]].st = "stopping"
        BY <1>3, <1>4, <1>8, <3>4
      <4>3. flag[h] => current[h] # Null
        BY <3>4
      <4> QED
        BY <3>4, <4>1, <4>2
    <3> QED
      BY <3>2, <3>3, <3>4
  <2> QED
    BY <2>3 DEF FlagHonest
<1> QED
  BY <1>9, <1>10, <1>11, <1>12, <1>13, <1>14, <1>15 DEF HubInv

LEMMA EmergencyConnectKeeps ==
  ASSUME HubInv, NEW i \in Callers, EmergencyConnect(i)
  PROVE  HubInv'
  BY SlotNames, ConnectIsScript, StopBothKeeps DEF EmergencyConnect

LEMMA SignOutKeeps ==
  ASSUME HubInv, SignOut
  PROVE  HubInv'
<1>1. <<>> \in Seq(Hubs \cup {"stop", "join"})
  OBVIOUS
<1> QED
  BY <1>1, SlotNames, StopBothKeeps DEF SignOut

\* stop() is done: the hub's reference goes, and with it the hold on a connection
\* that was built meanwhile.
LEMMA StoppedKeeps ==
  ASSUME HubInv, NEW c \in DOMAIN conns, Stopped(c)
  PROVE  HubInv'
<1> DEFINE h == conns[c].hub
           x == Closed(conns[c])
<1>1. conns[c].st = "stopping" /\ h \in Hubs /\ conns[c] \in Connection
  BY HubTypes DEF Stopped, Connection
<1>2. \E i \in Slots : c \in calls[i].stops
  BY <1>1 DEF HubInv, StopIsAwaited
<1>3. /\ conns' = [conns EXCEPT ![c] = x]
      /\ flag' = [flag EXCEPT ![h] = FALSE] /\ current' = [current EXCEPT ![h] = Null]
      /\ orphans' = IF current[h] \notin {c, Null} /\ Open(current[h])
                    THEN orphans \cup {current[h]} ELSE orphans
      /\ calls' = [i \in Slots |-> [Dropped(c)[i] EXCEPT !.stops = @ \ {c}]]
      /\ UNCHANGED <<session, pageOn>>
  BY <1>2 DEF Stopped
<1>4. x \in Connection /\ x.hub = h /\ x.st = "closed"
  BY <1>1, ConnectionClosed
<1> HIDE DEF x
<1>5. /\ conns' \in [DOMAIN conns -> Connection]
      /\ \A d \in DOMAIN conns : conns'[d].hub = conns[d].hub
      /\ \A d \in DOMAIN conns \ {c} : conns'[d].st = conns[d].st
      /\ conns'[c].st = "closed"
  BY <1>3, <1>4, HubTypes
<1>6. conns' \in Seq(Connection) /\ DOMAIN conns' = DOMAIN conns
  <2> DEFINE cs == conns'
  <2>1. cs \in [DOMAIN conns -> Connection]
    BY <1>5
  <2> HIDE DEF cs
  <2>2. cs \in Seq(Connection) /\ DOMAIN cs = DOMAIN conns
    BY <2>1, ConnsMapped DEF HubInv
  <2> QED
    BY <2>2 DEF cs
<1>7. ASSUME NEW i \in Slots
      PROVE  /\ calls'[i] \in CallRecord
             /\ calls'[i].stops \subseteq calls[i].stops /\ calls[i].stops \subseteq calls'[i].stops \cup {c}
             /\ CallOK(calls'[i], conns')
  <2> DEFINE d == Dropped(c)[i]
  <2>1. d \in CallRecord /\ (d = calls[i] \/ (Light(d) /\ calls[i].stops = {}))
    BY DroppedIsLight DEF HubInv
  <2>2. CallOK(calls[i], conns)
    BY DEF HubInv, CallsOK
  <2>3. calls'[i] = [d EXCEPT !.stops = @ \ {c}]
    BY <1>3
  <2> HIDE DEF d
  <2>4. /\ calls'[i] \in CallRecord
        /\ calls'[i].stops = d.stops \ {c} /\ calls'[i].at = d.at
        /\ calls'[i].conn = d.conn /\ calls'[i].todo = d.todo
    BY <2>1, <2>3 DEF CallRecord
  <2>5. CASE d = calls[i]
    BY <1>5, <1>6, <2>2, <2>4, <2>5 DEF CallOK
  <2>6. CASE Light(d) /\ calls[i].stops = {}
    BY <2>4, <2>6 DEF CallOK, Light
  <2> QED
    BY <2>1, <2>5, <2>6
<1>8. /\ current[h] # Null => current[h] \in DOMAIN conns
      /\ \A d \in DOMAIN conns : conns[d].hub \in Hubs /\ d # Null
  BY <1>1, HubTypes, ConnsDomain, HubNames DEF HubInv, CurrentIsOfHub, Connection
<1> HIDE DEF h
<1>9. HubsTyped'
  BY <1>1, <1>3, <1>6, <1>7, <1>8, HubTypes, HubNames DEF HubsTyped
<1>10. CurrentIsOfHub'
  BY <1>1, <1>3, <1>5, <1>6, HubTypes DEF HubInv, CurrentIsOfHub
<1>11. OpenIsHeld'
  <2> SUFFICES ASSUME NEW d \in DOMAIN conns, conns'[d].st # "closed"
               PROVE  d \in orphans' \/ current'[conns[d].hub] = d
    BY <1>5, <1>6 DEF OpenIsHeld, Open
  <2>1. d # c /\ Open(d)
    BY <1>5 DEF Open
  <2>2. d \in orphans \/ current[conns[d].hub] = d
    BY <2>1 DEF HubInv, OpenIsHeld
  <2>3. CASE conns[d].hub = h
    BY <1>3, <1>8, <2>1, <2>2, <2>3
  <2>4. CASE conns[d].hub # h
    BY <1>3, <1>8, <2>2, <2>4, HubTypes
  <2> QED
    BY <2>3, <2>4
<1>12. StopIsAwaited'
  <2> SUFFICES ASSUME NEW d \in DOMAIN conns, conns'[d].st = "stopping"
               PROVE  \E j \in Slots : d \in calls'[j].stops
    BY <1>6 DEF StopIsAwaited
  <2>1. d # c /\ conns[d].st = "stopping"
    BY <1>5
  <2>2. PICK j \in Slots : d \in calls[j].stops
    BY <2>1 DEF HubInv, StopIsAwaited
  <2> QED
    BY <1>7, <2>1, <2>2
<1>13. CallsOK'
  BY <1>7, SlotNames DEF HubInv, CallsOK
<1>14. SignedOutStops'
  BY <1>3, <1>5, <1>6 DEF HubInv, SignedOutStops, Open
<1>15. FlagHonest'
  <2>1. ASSUME NEW g \in Hubs, \A d \in orphans' : conns'[d].hub # g
        PROVE  /\ flag'[g] => current'[g] # Null /\ conns'[current'[g]].st \in {"connected", "stopping"}
               /\ current'[g] # Null /\ conns'[current'[g]].st = "connected" => flag'[g]
    <3>1. \A d \in orphans : conns[d].hub # g
      BY <1>3, <1>5, <2>1, HubTypes
    <3>2. CASE g = h
      BY <1>1, <1>3, <3>2, HubTypes
    <3>3. CASE g # h
      <4>1. current'[g] = current[g] /\ flag'[g] = flag[g]
        BY <1>3, <3>3, HubTypes
      <4>2. current[g] # Null => current[g] \in DOMAIN conns \ {c}
        BY <3>3 DEF h, HubInv, CurrentIsOfHub
      <4>3. current[g] # Null => conns'[current[g]].st = conns[current[g]].st
        BY <1>5, <4>2
      <4> QED
        BY <3>1, <4>1, <4>3 DEF HubInv, FlagHonest
    <3> QED
      BY <3>2, <3>3
  <2> QED
    BY <2>1 DEF FlagHonest
<1> QED
  BY <1>9, <1>10, <1>11, <1>12, <1>13, <1>14, <1>15 DEF HubInv

\* A connection that is found again after the session ended is stopped if the service
\* holds it.  After a logout it was lost hold of.
LEMMA ReconnectedSignedOutKeeps ==
  ASSUME HubInv, NEW c \in DOMAIN conns, ReconnectedSignedOut(c)
  PROVE  HubInv'
<1> DEFINE h == conns[c].hub
           k == current[h]
           up == [conns EXCEPT ![c].st = "connected"]
           r == [Call(<<"stop">>, MaxTries) EXCEPT !.at = "stopping", !.stops = @ \cup {k} \cup calls["logout"].stops]
           Stops == /\ k # Null /\ up[k].st # "closed"
                    /\ conns' = [up EXCEPT ![k].st = "stopping"]
                    /\ calls' = [calls EXCEPT !["logout"] = r]
                    /\ flag' = [flag EXCEPT ![h] = TRUE] /\ current' = current
           Drops == /\ k = Null \/ up[k].st = "closed"
                    /\ conns' = up /\ calls' = calls
                    /\ flag' = [flag EXCEPT ![h] = k = Null]
                    /\ current' = [current EXCEPT ![h] = Null]
<1>1. conns[c].st = "resuming" /\ ~auth /\ h \in Hubs /\ UNCHANGED <<session, pageOn, orphans>>
  BY HubTypes DEF ReconnectedSignedOut, Connection
<1>2. Stops \/ Drops
  BY DEF ReconnectedSignedOut
<1>4. /\ up \in [DOMAIN conns -> Connection]
      /\ \A d \in DOMAIN conns : up[d].hub = conns[d].hub
      /\ \A d \in DOMAIN conns \ {c} : up[d].st = conns[d].st
      /\ up[c].st = "connected"
  BY HubTypes DEF Connection, ConnectionState
<1>5. k \in Nat /\ (k # Null => k \in DOMAIN conns /\ conns[k].hub = h)
  BY <1>1, HubTypes DEF HubInv, CurrentIsOfHub
<1>3. c \in orphans \/ (Stops /\ c = k /\ c # Null)
  <2>1. c \in orphans \/ (current[h] = c /\ c # Null)
    BY <1>1, ConnsDomain, HubNames DEF HubInv, OpenIsHeld, Open
  <2> QED
    BY <1>2, <1>4, <2>1
<1>6. r \in CallRecord /\ CallOK(r, conns') /\ r.stops = {k} \cup calls["logout"].stops
  <2>1. Light(Call(<<"stop">>, MaxTries))
    <3>1. <<"stop">> \in Seq(Hubs \cup {"stop", "join"})
      OBVIOUS
    <3> QED
      BY <3>1, CallIsLight, ConnectionsAssumption
  <2>2. Call(<<"stop">>, MaxTries).conn = Null
    BY DEF Call, Idle
  <2>3. calls["logout"].stops \in SUBSET Nat
    BY HubTypes, SlotNames DEF CallRecord
  <2> QED
    BY <1>5, <2>1, <2>2, <2>3 DEF Light, CallRecord, CallPlace, CallOK
<1> HIDE DEF h, k, up, r
\* The hub's other connections, and the calls.
<1>7. /\ conns' \in [DOMAIN conns -> Connection]
      /\ \A d \in DOMAIN conns : /\ conns'[d].hub = conns[d].hub
                                 /\ d # c /\ d # k => conns'[d].st = conns[d].st
                                 /\ conns'[d].st \in {"connected", "stopping", conns[d].st}
      /\ conns'[c].st = "connected" \/ (c = k /\ Stops)
      /\ Stops /\ k \in DOMAIN conns => conns'[k].st = "stopping"
      /\ Drops => \A d \in DOMAIN conns : d # c => conns'[d].st = conns[d].st
  <2>1. CASE Stops
    BY <1>4, <1>5, <2>1 DEF Connection, ConnectionState
  <2>2. CASE Drops
    BY <1>4, <1>5, <2>2
  <2> QED
    BY <1>2, <2>1, <2>2
<1>8. conns' \in Seq(Connection) /\ DOMAIN conns' = DOMAIN conns
  <2> DEFINE cs == conns'
  <2>1. cs \in [DOMAIN conns -> Connection]
    BY <1>7
  <2> HIDE DEF cs
  <2>2. cs \in Seq(Connection) /\ DOMAIN cs = DOMAIN conns
    BY <2>1, ConnsMapped DEF HubInv
  <2> QED
    BY <2>2 DEF cs
<1>9. HubsTyped'
  <2>1. CASE Stops
    BY <1>1, <1>6, <1>8, <2>1, HubTypes DEF HubsTyped
  <2>2. CASE Drops
    BY <1>1, <1>8, <2>2, HubTypes, HubNames DEF HubsTyped
  <2> QED
    BY <1>2, <2>1, <2>2
<1>10. CurrentIsOfHub'
  BY <1>1, <1>2, <1>7, <1>8, HubTypes DEF HubInv, CurrentIsOfHub
<1>11. OpenIsHeld'
  <2> SUFFICES ASSUME NEW d \in DOMAIN conns, conns'[d].st # "closed"
               PROVE  d \in orphans \/ current'[conns[d].hub] = d
    BY <1>1, <1>7, <1>8 DEF OpenIsHeld, Open
  <2>1. CASE Stops
    <3>1. Open(d)
      BY <1>1, <1>4, <1>7, <2>1 DEF Open
    <3> QED
      BY <2>1, <3>1 DEF HubInv, OpenIsHeld
  <2>2. CASE Drops /\ d = c
    BY <1>3, <2>2
  <2>3. CASE Drops /\ d # c
    <3>1. conns'[d].st = conns[d].st /\ (d = k => up[k].st # "closed")
      BY <1>4, <1>7, <2>3
    <3>2. d \in orphans \/ current[conns[d].hub] = d
      BY <3>1 DEF HubInv, OpenIsHeld, Open
    <3>3. d # Null /\ conns[d].hub \in Hubs
      BY HubTypes, ConnsDomain, HubNames DEF HubInv, Connection
    <3>4. CASE conns[d].hub = h
      BY <2>3, <3>1, <3>2, <3>3, <3>4 DEF k
    <3>5. CASE conns[d].hub # h
      BY <2>3, <3>2, <3>3, <3>5, HubTypes
    <3> QED
      BY <3>4, <3>5
  <2> QED
    BY <1>2, <2>1, <2>2, <2>3
<1>12. StopIsAwaited'
  <2> SUFFICES ASSUME NEW d \in DOMAIN conns, conns'[d].st = "stopping"
               PROVE  \E j \in Slots : d \in calls'[j].stops
    BY <1>8 DEF StopIsAwaited
  <2>1. \A j \in Slots : calls[j].stops \subseteq calls'[j].stops
    BY <1>2, <1>6, HubTypes
  <2>2. CASE Stops /\ d = k
    BY <1>6, <2>2, SlotNames, HubTypes
  <2>3. CASE conns[d].st = "stopping"
    BY <2>1, <2>3 DEF HubInv, StopIsAwaited
  <2>4. conns[d].st = "stopping" \/ (Stops /\ d = k)
    BY <1>2, <1>7
  <2> QED
    BY <2>2, <2>3, <2>4
<1>13. CallsOK'
  <2>1. ASSUME NEW j \in Slots PROVE CallOK(calls'[j], conns')
    <3>1. CASE calls'[j] = calls[j]
      BY <1>7, <1>8, <3>1 DEF HubInv, CallsOK, CallOK
    <3>2. CASE calls'[j] = r
      BY <1>6, <3>2
    <3> QED
      BY <1>2, <3>1, <3>2, HubTypes
  <2>2. \A v \in PageCallers : calls'[Page(v)] = calls[Page(v)]
    BY <1>2, SlotNames, HubTypes
  <2> QED
    BY <2>1, <2>2 DEF HubInv, CallsOK
<1>14. SignedOutStops'
  <2> SUFFICES ASSUME session.user = "out" PROVE SignedOutStops'
    BY <1>1 DEF SignedOutStops
  <2>0. c \in orphans
    BY <1>1 DEF HubInv, SignedOutStops, Open
  <2>1. ASSUME NEW d \in DOMAIN conns, conns'[d].st # "closed", d # c
        PROVE  d \in orphans \/ conns'[d].st = "stopping"
    <3>1. CASE Stops /\ d = k
      BY <1>7, <3>1
    <3>2. CASE conns'[d].st = conns[d].st
      BY <1>1, <2>1, <3>2 DEF HubInv, SignedOutStops, Open
    <3> QED
      BY <1>2, <1>7, <2>1, <3>1, <3>2
  <2> QED
    BY <1>1, <1>8, <2>0, <2>1 DEF SignedOutStops, Open
<1>15. FlagHonest'
  <2>1. ASSUME NEW g \in Hubs, \A d \in orphans' : conns'[d].hub # g
        PROVE  /\ flag'[g] => current'[g] # Null /\ conns'[current'[g]].st \in {"connected", "stopping"}
               /\ current'[g] # Null /\ conns'[current'[g]].st = "connected" => flag'[g]
    <3>1. \A d \in orphans : conns[d].hub # g
      BY <1>1, <1>7, <2>1, HubTypes
    <3>2. CASE g = h
      <4>1. c \notin orphans
        BY <3>1, <3>2 DEF h
      <4>2. Stops /\ c = k /\ c # Null
        BY <1>3, <4>1
      <4>3. conns'[k].st = "stopping"
        BY <1>5, <1>7, <4>2
      <4>4. current'[g] = k
        BY <3>2, <4>2 DEF k
      <4> QED
        BY <4>2, <4>3, <4>4
    <3>3. CASE g # h
      <4>1. current'[g] = current[g] /\ flag'[g] = flag[g]
        BY <1>2, <3>3, HubTypes
      <4>2. current[g] # Null => current[g] \in DOMAIN conns /\ current[g] # c /\ current[g] # k
        BY <1>5, <3>3 DEF h, HubInv, CurrentIsOfHub
      <4>3. current[g] # Null => conns'[current[g]].st = conns[current[g]].st
        BY <1>7, <4>2
      <4> QED
        BY <3>1, <4>1, <4>3 DEF HubInv, FlagHonest
    <3> QED
      BY <3>2, <3>3
  <2> QED
    BY <2>1 DEF FlagHonest
<1> QED
  BY <1>9, <1>10, <1>11, <1>12, <1>13, <1>14, <1>15 DEF HubInv

-----------------------------------------------------------------------------
(* The invariant *)

LEMMA HubInit == ConnInit => HubInv
<1> SUFFICES ASSUME ConnInit PROVE HubInv
  OBVIOUS
<1>1. conns \in Seq(Connection) /\ DOMAIN conns = {}
  BY EmptySeq DEF ConnInit
<1>2. \A i \in Slots : calls[i] = Idle /\ Idle \in CallRecord /\ CallOK(Idle, conns) /\ Idle.stops = {}
  BY IdleIsLight DEF ConnInit, Light, CallOK
<1>3. HubsTyped
  BY <1>1, <1>2, HubNames DEF ConnInit, HubsTyped
<1>4. CallsOK
  BY <1>2, SlotNames DEF CallsOK
<1>5. CurrentIsOfHub /\ OpenIsHeld /\ StopIsAwaited /\ SignedOutStops
  BY <1>1 DEF ConnInit, CurrentIsOfHub, OpenIsHeld, StopIsAwaited, SignedOutStops
<1>6. FlagHonest
  BY DEF ConnInit, FlagHonest
<1> QED
  BY <1>3, <1>4, <1>5, <1>6 DEF HubInv

LEMMA HubStep == HubInv /\ [ConnNext]_connVars => HubInv'
<1> SUFFICES ASSUME HubInv, [ConnNext]_connVars PROVE HubInv'
  OBVIOUS
<1>1. CASE ConnNext
  <2>1. CASE \E i \in Slots, h \in Hubs :
          ConnectEnter(i, h) \/ NoToken(i, h) \/ Build(i, h) \/ Started(i, h) \/ StartFailed(i, h)
    BY <2>1, ConnectEnterKeeps, NoTokenKeeps, BuildKeeps, StartedKeeps, StartFailedKeeps
  <2>2. CASE \E i \in Slots : Disconnected(i)
    BY <2>2, DisconnectedKeeps
  <2>3. CASE \E c \in DOMAIN conns :
          Stopped(c) \/ Lost(c) \/ Retrying(c) \/ Reconnected(c) \/ ReconnectedSignedOut(c) \/ GaveUp(c)
    BY <2>3, StoppedKeeps, LostKeeps, RetryingKeeps, ReconnectedKeeps, ReconnectedSignedOutKeeps, GaveUpKeeps
  <2>4. CASE \E h \in Hubs : TimerFires(h)
    BY <2>4, TimerFiresKeeps
  <2>5. CASE \E i \in Callers :
          ConnectInstantly(i) \/ InstantAgain(i) \/ EmergencyConnect(i) \/ EnsureConnection(i) \/ CallerDone(i)
    BY <2>5, CallerBegins, EmergencyConnectKeeps, CallerDoneKeeps
  <2>6. CASE SignOut \/ Lapse \/ SignIn
    BY <2>6, SignOutKeeps, TurnKeeps
  <2> QED
    BY <1>1, <2>1, <2>2, <2>3, <2>4, <2>5, <2>6 DEF ConnNext
<1>2. CASE UNCHANGED connVars
  BY <1>2 DEF connVars, HubInv, HubsTyped, CurrentIsOfHub, OpenIsHeld, StopIsAwaited, CallsOK, CallOK,
              SignedOutStops, FlagHonest, Open
<1> QED
  BY <1>1, <1>2

LEMMA SignedOutMeansQuiet == HubInv => SignedOutIsQuiet
  BY DEF HubInv, SignedOutStops, StopIsAwaited, CallsOK, CallOK, SignedOutIsQuiet, Quiet

LEMMA HubInvariant == ConnSpec => []HubInv
  BY HubInit, HubStep, PTL DEF ConnSpec

\* After a logout, when no call of the service is under way, every connection that is
\* still open is one the service had lost hold of (SignalRService.ts:143, disconnect,
\* and what the library starts by itself), also when the session had lapsed before.
THEOREM SignOutSilences == ConnSpec => []SignedOutIsQuiet
  BY HubInvariant, SignedOutMeansQuiet, PTL

\* While the service has lost hold of no connection of a hub, the flag that the pages
\* ask is raised exactly for a connection that is up, or just being stopped
\* (isGloballyConnected, leaveSimulation).
THEOREM FlagsAreHonest == ConnSpec => []FlagHonest
<1>1. HubInv => FlagHonest
  BY DEF HubInv
<1> QED
  BY <1>1, HubInvariant, PTL

-----------------------------------------------------------------------------
(* The simulation page *)

MatchEvent == Matches \X (1 .. MaxEvents)

ViewTyped ==
  /\ visited \in Seq(Matches) /\ Len(visited) <= MaxVisits
  /\ open \in BOOLEAN /\ (open => visited # <<>>)
  /\ events \in Seq(MatchEvent)
  /\ sse # Null => Here(sse)

\* Only pages that were opened have a call.
CallersVisited == \A v \in PageCallers \ DOMAIN visited : calls[Page(v)] = Idle

\* While nothing was joined late or lost hold of, the page is in no group but that of
\* its match, over the connection it could still leave it on.
GroupsOfPage ==
  late = {} /\ orphans = {} =>
    \A c \in DOMAIN conns : conns[c].groups # {} =>
      \/ conns[c].st \in {"stopping", "closed"}
      \/ /\ conns[c].st = "connected" /\ conns[c].hub = "match"
         /\ open /\ conns[c].groups = {visited[Len(visited)]}

\* What a step of the service does to the groups and the calls of the page.
GroupsCarried ==
  /\ orphans \subseteq orphans'
  /\ \A c \in DOMAIN conns' : conns'[c].groups # {} =>
       /\ c \in DOMAIN conns /\ conns'[c].groups = conns[c].groups /\ conns'[c].hub = conns[c].hub
       /\ \/ conns'[c].st \in {conns[c].st, "stopping", "closed"}
          \/ conns[c].st \in {"starting", "reconnecting", "resuming"}

CallersCarried ==
  \A v \in PageCallers : calls[Page(v)] = Idle => calls'[Page(v)] = Idle

\* The connections are as they were but for the state of one.
LEMMA CarriedByOne ==
  ASSUME HubInv, NEW c \in DOMAIN conns, NEW x \in Connection,
         conns' = [conns EXCEPT ![c] = x] \/ conns' = EnsureGlobal([conns EXCEPT ![c] = x]),
         x.hub = conns[c].hub, x.groups = conns[c].groups \/ x.groups = {},
         \/ x.st \in {conns[c].st, "stopping", "closed"}
         \/ conns[c].st \in {"starting", "reconnecting", "resuming"},
         orphans \subseteq orphans'
  PROVE  GroupsCarried
<1> DEFINE up == [conns EXCEPT ![c] = x]
<1>1. /\ up \in [DOMAIN conns -> Connection] /\ up[c] = x
      /\ \A d \in DOMAIN conns \ {c} : up[d] = conns[d]
  BY HubTypes
<1> HIDE DEF up
<1>2. /\ DOMAIN conns' = DOMAIN conns
      /\ \A d \in DOMAIN conns : /\ conns'[d].hub = up[d].hub /\ conns'[d].st = up[d].st
                                 /\ conns'[d].groups = up[d].groups
  BY <1>1, GlobalEnsured DEF up, HubInv
<1> QED
  BY <1>1, <1>2 DEF GroupsCarried

LEMMA ServiceCarriesGroups ==
  ASSUME HubInv, [ConnNext]_connVars
  PROVE  GroupsCarried
<1>1. ASSUME UNCHANGED conns, orphans \subseteq orphans' PROVE GroupsCarried
  BY <1>1 DEF GroupsCarried
<1>2. CASE UNCHANGED connVars
  BY <1>1, <1>2 DEF connVars
<1>3. ASSUME NEW i \in Slots, NEW h \in Hubs, ConnectEnter(i, h) \/ NoToken(i, h) PROVE GroupsCarried
  BY <1>1, <1>3 DEF ConnectEnter, NoToken
<1>4. ASSUME NEW i \in Slots, NEW h \in Hubs, Build(i, h) PROVE GroupsCarried
  <2>1. /\ DOMAIN conns' = DOMAIN conns \cup {Len(conns) + 1}
        /\ \A d \in DOMAIN conns : conns'[d] = conns[d]
        /\ conns'[Len(conns) + 1].groups = {}
    BY <1>4, ConnsDomain DEF Build, Conn, HubInv
  <2>2. orphans \subseteq orphans'
    BY <1>4 DEF Build
  <2> QED
    BY <2>1, <2>2 DEF GroupsCarried
<1>5. ASSUME NEW i \in Slots, NEW h \in Hubs, Started(i, h) PROVE GroupsCarried
  <2> DEFINE c == calls[i].conn
             x == [conns[c] EXCEPT !.st = "connected", !.started = TRUE]
  <2>1. c \in DOMAIN conns /\ conns[c].st = "starting"
    BY <1>5 DEF Started, Head1, HubInv, CallsOK, CallOK
  <2>2. x \in Connection /\ x.hub = conns[c].hub /\ x.groups = conns[c].groups
    BY <2>1, HubTypes, ConnectionSet DEF ConnectionState
  <2>3. conns' = [conns EXCEPT ![c] = x] \/ conns' = EnsureGlobal([conns EXCEPT ![c] = x])
    BY <1>5 DEF Started
  <2>4. orphans' = orphans
    BY <1>5 DEF Started
  <2> HIDE DEF c, x
  <2> QED
    BY <2>1, <2>2, <2>3, <2>4, CarriedByOne
<1>6. ASSUME NEW i \in Slots, NEW h \in Hubs, StartFailed(i, h) PROVE GroupsCarried
  <2> DEFINE c == calls[i].conn
  <2>1. c \in DOMAIN conns
    BY <1>6 DEF StartFailed, Head1, HubInv, CallsOK, CallOK
  <2> QED
    BY <1>6, <2>1, HubTypes, ConnectionClosed DEF StartFailed, GroupsCarried
<1>7. ASSUME NEW c \in DOMAIN conns, Stopped(c) \/ Lost(c) \/ Retrying(c) \/ Reconnected(c) \/ GaveUp(c)
      PROVE  GroupsCarried
  <2> DEFINE x(s) == [conns[c] EXCEPT !.st = s]
             y(s) == [conns[c] EXCEPT !.st = s, !.groups = {}]
  <2>1. \A s \in ConnectionState :
          /\ x(s) \in Connection /\ x(s).st = s /\ x(s).hub = conns[c].hub /\ x(s).groups = conns[c].groups
          /\ y(s) \in Connection /\ y(s).st = s /\ y(s).hub = conns[c].hub /\ y(s).groups = {}
    BY HubTypes, ConnectionSet DEF Connection
  <2>2. orphans \subseteq orphans'
    BY <1>7 DEF Stopped, Lost, Retrying, Reconnected, GaveUp
  <2>3. \/ conns' = [conns EXCEPT ![c] = Closed(conns[c])]
        \/ conns' = [conns EXCEPT ![c] = y("reconnecting")]
        \/ conns' = [conns EXCEPT ![c] = x("resuming")] /\ conns[c].st = "reconnecting"
        \/ /\ conns' \in {[conns EXCEPT ![c] = x("connected")], EnsureGlobal([conns EXCEPT ![c] = x("connected")])}
           /\ conns[c].st = "resuming"
    BY <1>7 DEF Stopped, Lost, Retrying, Reconnected, GaveUp
  <2>4. /\ Closed(conns[c]) \in Connection /\ Closed(conns[c]).groups = {}
        /\ y("reconnecting") \in Connection /\ y("reconnecting").groups = {}
    BY <2>1, HubTypes, ConnectionClosed DEF ConnectionState
  <2>5. /\ x("resuming") \in Connection /\ x("resuming").hub = conns[c].hub
        /\ x("resuming").groups = conns[c].groups
        /\ x("connected") \in Connection /\ x("connected").hub = conns[c].hub
        /\ x("connected").groups = conns[c].groups
    BY <2>1 DEF ConnectionState
  <2> HIDE DEF x, y
  <2>6. CASE conns' = [conns EXCEPT ![c] = Closed(conns[c])]
    BY <2>2, <2>4, <2>6, HubTypes DEF GroupsCarried
  <2>7. CASE conns' = [conns EXCEPT ![c] = y("reconnecting")]
    BY <2>2, <2>4, <2>7, HubTypes DEF GroupsCarried
  <2>8. CASE conns' = [conns EXCEPT ![c] = x("resuming")] /\ conns[c].st = "reconnecting"
    BY <2>2, <2>5, <2>8, HubTypes DEF GroupsCarried
  <2>9. CASE /\ conns' \in {[conns EXCEPT ![c] = x("connected")], EnsureGlobal([conns EXCEPT ![c] = x("connected")])}
             /\ conns[c].st = "resuming"
    BY <2>2, <2>5, <2>9, CarriedByOne
  <2> QED
    BY <2>3, <2>6, <2>7, <2>8, <2>9
<1>8. ASSUME NEW c \in DOMAIN conns, ReconnectedSignedOut(c) PROVE GroupsCarried
  BY <1>8, HubTypes DEF ReconnectedSignedOut, GroupsCarried, Connection
<1>9. ASSUME NEW i \in Slots, NEW then, StopBoth(i, then) PROVE GroupsCarried
  BY <1>9, HubTypes DEF StopBoth, GroupsCarried, Connection
<1>10. ASSUME NEW i \in Callers, CallerDone(i) PROVE GroupsCarried
  BY <1>10, GlobalEnsured, HubTypes DEF CallerDone, GroupsCarried, HubInv
<1>11. CASE ConnNext
  BY <1>1, <1>3, <1>4, <1>5, <1>6, <1>7, <1>8, <1>9, <1>10, <1>11, SlotNames
     DEF ConnNext, Disconnected, TimerFires, ConnectInstantly, InstantAgain, EnsureConnection, Begin,
         EmergencyConnect, SignOut, Lapse, SignIn
<1> QED
  BY <1>2, <1>11

LEMMA ServiceCarriesCallers ==
  ASSUME HubInv, [ConnNext]_connVars
  PROVE  CallersCarried
<1> SUFFICES ASSUME NEW v \in PageCallers, calls[Page(v)] = Idle
             PROVE  calls'[Page(v)] = Idle
  BY DEF CallersCarried
<1> DEFINE p == Page(v)
<1>1. /\ p \in Slots /\ p \notin Callers \cup Hubs \cup {"logout"} /\ calls[p] = Idle
      /\ calls \in [Slots -> CallRecord]
  BY SlotNames, ConnectionsAssumption, HubTypes
<1> HIDE DEF p
<1>2. Idle.at = "idle" /\ Idle.conn = 0 /\ Idle.stops = {}
  BY DEF Idle, Null
<1>3. SUFFICES ASSUME calls'[p] # calls[p] PROVE FALSE
  BY <1>1 DEF p
<1>4. ASSUME NEW i \in Slots, NEW r, calls' = [calls EXCEPT ![i] = r] PROVE i = p
  BY <1>1, <1>3, <1>4
<1>5. ConnNext
  BY <1>3 DEF connVars
<1>6. ASSUME NEW i \in Slots, NEW h \in Hubs,
             ConnectEnter(i, h) \/ NoToken(i, h) \/ Build(i, h) \/ Started(i, h) \/ StartFailed(i, h)
      PROVE  FALSE
  <2>1. calls[i].at # "idle"
    BY <1>6 DEF ConnectEnter, NoToken, Build, Started, StartFailed, Head1
  <2> QED
    BY <1>1, <1>2, <1>3, <1>6, <2>1 DEF ConnectEnter, NoToken, Build, Started, StartFailed
<1>7. ASSUME NEW i \in Slots, Disconnected(i) PROVE FALSE
  BY <1>1, <1>2, <1>3, <1>7 DEF Disconnected
<1>8. ASSUME NEW c \in DOMAIN conns PROVE Dropped(c)[p] = Idle
  BY <1>1, <1>2, ConnsDomain DEF Dropped, HubInv
<1>9. ASSUME NEW c \in DOMAIN conns, Lost(c) PROVE FALSE
  BY <1>1, <1>3, <1>8, <1>9 DEF Lost
<1>10. ASSUME NEW c \in DOMAIN conns, Stopped(c) PROVE FALSE
  <2>1. calls'[p] = [Dropped(c)[p] EXCEPT !.stops = @ \ {c}]
    BY <1>1, <1>10 DEF Stopped
  <2>2. Idle.stops \ {c} = {}
    BY <1>2
  <2>3. ASSUME NEW r \in CallRecord, r.stops \ {c} = r.stops PROVE [r EXCEPT !.stops = @ \ {c}] = r
    BY <2>3 DEF CallRecord
  <2>4. [Idle EXCEPT !.stops = @ \ {c}] = Idle
    BY <1>2, <2>2, <2>3, IdleIsLight DEF Light
  <2> QED
    BY <1>1, <1>3, <1>8, <2>1, <2>4
<1>11. ASSUME NEW c \in DOMAIN conns, Retrying(c) \/ Reconnected(c) \/ ReconnectedSignedOut(c) \/ GaveUp(c)
       PROVE  FALSE
  BY <1>1, <1>3, <1>11 DEF Retrying, Reconnected, ReconnectedSignedOut, GaveUp
<1>12. ASSUME NEW h \in Hubs, TimerFires(h) PROVE FALSE
  BY <1>1, <1>3, <1>12 DEF TimerFires
<1>13. ASSUME NEW i \in Callers,
              ConnectInstantly(i) \/ InstantAgain(i) \/ EmergencyConnect(i) \/ EnsureConnection(i) \/ CallerDone(i)
       PROVE  FALSE
  BY <1>1, <1>3, <1>13 DEF ConnectInstantly, InstantAgain, EmergencyConnect, EnsureConnection, CallerDone,
                           Begin, StopBoth
<1>14. ASSUME SignOut \/ Lapse \/ SignIn PROVE FALSE
  BY <1>1, <1>3, <1>14 DEF SignOut, Lapse, SignIn, StopBoth
<1> QED
  BY <1>5, <1>6, <1>7, <1>9, <1>10, <1>11, <1>12, <1>13, <1>14 DEF ConnNext

-----------------------------------------------------------------------------
(* The steps of the page leave the hubs as they should be *)

LEMMA DecideIsLight ==
  ASSUME NEW got \in SUBSET Hubs, NEW tries \in Nat
  PROVE  Light([Idle EXCEPT !.at = "decide", !.got = got, !.tries = tries])
  BY EmptySeq, HubNames DEF Light, Idle, CallRecord, CallPlace

LEMMA PageConnectIsLight ==
  ASSUME NEW tries \in Nat
  PROVE  Light(PageConnect(tries))
  BY DecideIsLight, CallIsLight, ConnectIsScript DEF PageConnect

LEMMA VisitHubs ==
  ASSUME HubInv, ViewTyped, Visit
  PROVE  HubInv'
<1> DEFINE i == Page(Len(visited) + 1)
<1>1. Len(visited) \in Nat /\ MaxVisits \in Nat /\ Len(visited) + 1 \in PageCallers
  BY ConnectionsAssumption DEF Visit, ViewTyped, PageCallers
<1>2. i \in Slots /\ calls[i].stops = {}
  BY <1>1, SlotNames DEF HubInv, CallsOK
<1>3. Len(visited') = Len(visited) + 1
  BY DEF Visit, ViewTyped
<1>4. Light(PageConnect(1))
  BY PageConnectIsLight
<1>5. /\ calls' = [calls EXCEPT ![i] = PageConnect(1)]
      /\ UNCHANGED <<conns, current, flag, pageOn, orphans>> /\ UNCHANGED session
  BY <1>3 DEF Visit
<1> HIDE DEF i
<1> QED
  BY <1>2, <1>4, <1>5, OneCallStep

LEMMA JoinsHubs ==
  ASSUME HubInv, NEW v \in PageCallers, Joins(v)
  PROVE  HubInv'
<1> DEFINE i == Page(v)
           n == calls[i].tries
<1>1. i \in Slots /\ calls[i].stops = {} /\ n \in Nat
  BY SlotNames, HubTypes DEF HubInv, CallsOK, CallRecord
<1>2. <<"join">> \in Seq(Hubs \cup {"stop", "join"}) /\ <<"match", "join">> \in Seq(Hubs \cup {"stop", "join"})
  BY HubNames
<1>3. Light(Call(<<"match", "join">>, n)) /\ Light(Call(<<"join">>, n))
  BY <1>1, <1>2, CallIsLight
<1>4. Light([Call(<<"join">>, n) EXCEPT !.got = {"match"}])
  BY <1>3, HubNames DEF Light, CallRecord
<1>5. /\ \/ calls' = [calls EXCEPT ![i] = [Call(<<"join">>, n) EXCEPT !.got = {"match"}]]
         \/ calls' = [calls EXCEPT ![i] = Call(<<"match", "join">>, n)]
      /\ UNCHANGED <<conns, current, flag, pageOn, orphans>> /\ UNCHANGED session
  BY <1>1, HubTypes DEF Joins
<1> HIDE DEF i, n
<1> QED
  BY <1>1, <1>3, <1>4, <1>5, OneCallStep

LEMMA JoinAgainHubs ==
  ASSUME HubInv, NEW v \in PageCallers, JoinAgain(v)
  PROVE  HubInv'
<1> DEFINE i == Page(v)
           n == calls[i].tries + 1
<1>1. i \in Slots /\ calls[i].stops = {} /\ n \in Nat
  BY SlotNames, HubTypes DEF HubInv, CallsOK, CallRecord
<1>2. /\ calls' \in {[calls EXCEPT ![i] = PageConnect(n)], [calls EXCEPT ![i] = Idle]}
      /\ UNCHANGED <<conns, current, flag, pageOn, orphans>> /\ UNCHANGED session
  BY <1>1, HubTypes DEF JoinAgain
<1>3. Light(PageConnect(n)) /\ Light(Idle)
  BY <1>1, PageConnectIsLight, IdleIsLight
<1> HIDE DEF i, n
<1> QED
  BY <1>1, <1>2, <1>3, OneCallStep

LEMMA InvokeHubs ==
  ASSUME HubInv, ViewTyped, CallersVisited, NEW v \in PageCallers, Invoke(v)
  PROVE  HubInv'
<1> DEFINE i == Page(v)
           c == current["match"]
           r == [calls[i] EXCEPT !.at = "invoked", !.conn = c]
           x == [conns[c] EXCEPT !.groups = @ \cup {visited[v]}]
<1>1. i \in Slots /\ calls[i].stops = {} /\ calls[i] \in CallRecord
  BY SlotNames, HubTypes DEF HubInv, CallsOK
<1>2. CASE "match" \in calls[i].got /\ c # Null /\ conns[c].st = "connected"
  <2>1. visited[v] \in Matches
    BY DEF Invoke, Head1, Idle, CallersVisited, ViewTyped
  <2>2. c \in DOMAIN conns /\ c \in Nat
    BY <1>2, HubNames, HubTypes DEF HubInv, CurrentIsOfHub
  <2>3. Light(r)
    BY <1>1, <2>2 DEF Light, CallRecord, CallPlace
  <2>4. x \in Connection /\ x.hub = conns[c].hub /\ x.st = conns[c].st
    BY <2>1, <2>2, HubTypes DEF Connection
  <2>5. /\ conns' = [conns EXCEPT ![c] = x] /\ calls' = [calls EXCEPT ![i] = r]
        /\ UNCHANGED <<current, flag, pageOn, orphans>> /\ UNCHANGED session
    BY <1>2 DEF Invoke
  <2> HIDE DEF x, r, i, c
  <2>6. /\ conns' \in [DOMAIN conns -> Connection]
        /\ \A d \in DOMAIN conns : conns'[d].hub = conns[d].hub /\ conns'[d].st = conns[d].st
    BY <2>2, <2>4, <2>5, HubTypes
  <2>7. Quietly
    BY <1>1, <2>3, <2>5, <2>6, HubTypes DEF Quietly, Light
  <2> QED
    BY <2>5, <2>6, <2>7, StillStep
<1>3. CASE ~("match" \in calls[i].got /\ c # Null /\ conns[c].st = "connected")
  <2> DEFINE d == [Idle EXCEPT !.at = "decide", !.tries = calls[i].tries]
  <2>1. Light(d)
    BY <1>1, EmptySeq, HubNames DEF Light, Idle, CallRecord, CallPlace
  <2>2. calls' = [calls EXCEPT ![i] = d] /\ UNCHANGED <<conns, current, flag, pageOn, orphans>> /\ UNCHANGED session
    BY <1>3 DEF Invoke
  <2> HIDE DEF d, i, c
  <2> QED
    BY <1>1, <2>1, <2>2, OneCallStep
<1> QED
  BY <1>2, <1>3

LEMMA SubscribedHubs ==
  ASSUME HubInv, NEW v \in PageCallers, Subscribed(v)
  PROVE  HubInv'
<1> DEFINE i == Page(v)
           c == current["match"]
           x == [conns[c] EXCEPT !.pages = (@ \ {pageOn}) \cup {v}]
<1>1. i \in Slots /\ calls[i].stops = {} /\ calls[i] \in CallRecord
  BY SlotNames, HubTypes DEF HubInv, CallsOK
<1>2. calls' = [calls EXCEPT ![i] = Idle] /\ UNCHANGED <<current, flag, orphans>> /\ UNCHANGED session
  BY DEF Subscribed
<1>3. /\ conns' \in [DOMAIN conns -> Connection] /\ pageOn' \in PageCallers \cup {Null}
      /\ \A d \in DOMAIN conns : conns'[d].hub = conns[d].hub /\ conns'[d].st = conns[d].st
  <2>1. CASE c = Null
    BY <2>1, HubTypes DEF Subscribed
  <2>2. CASE c # Null
    <3>1. c \in DOMAIN conns
      BY <2>2, HubNames DEF HubInv, CurrentIsOfHub
    <3>2. x \in Connection /\ x.hub = conns[c].hub /\ x.st = conns[c].st
      BY <3>1, HubTypes DEF Connection
    <3>3. conns' = [conns EXCEPT ![c] = x] /\ pageOn' = v
      BY <2>2 DEF Subscribed
    <3> HIDE DEF x, c
    <3> QED
      BY <3>1, <3>2, <3>3, HubTypes
  <2> QED
    BY <2>1, <2>2
<1> HIDE DEF i
<1>4. Quietly
  BY <1>1, <1>2, <1>3, IdleIsLight, HubTypes DEF Quietly, Light
<1> QED
  BY <1>2, <1>3, <1>4, StillStep

\* Leaving the page takes the match's group and the handlers off the connection held.
LEMMA LeftUnheard ==
  ASSUME HubInv, NEW m
  PROVE  /\ Unheard(Left(conns, m)) \in [DOMAIN conns -> Connection]
         /\ \A d \in DOMAIN conns :
              /\ Unheard(Left(conns, m))[d].hub = conns[d].hub /\ Unheard(Left(conns, m))[d].st = conns[d].st
              /\ Unheard(Left(conns, m))[d].groups =
                   IF d = current["match"] /\ flag["match"] /\ conns[d].st = "connected"
                   THEN conns[d].groups \ {m} ELSE conns[d].groups
<1> DEFINE c == current["match"]
           x == [conns[c] EXCEPT !.groups = @ \ {m}]
           l == Left(conns, m)
           y == [l[c] EXCEPT !.pages = @ \ {pageOn}, !.global = FALSE]
<1>1. CASE c = Null
  <2>1. 0 \notin DOMAIN conns
    BY ConnsDomain DEF HubInv
  <2> QED
    BY <1>1, <2>1, HubTypes DEF Left, Unheard, Null
<1>2. CASE c # Null
  <2>1. c \in DOMAIN conns
    BY <1>2, HubNames DEF HubInv, CurrentIsOfHub
  <2>2. x \in Connection /\ x.hub = conns[c].hub /\ x.st = conns[c].st /\ x.groups = conns[c].groups \ {m}
    BY <2>1, HubTypes DEF Connection
  <2>3. l = IF flag["match"] /\ conns[c].st = "connected" THEN [conns EXCEPT ![c] = x] ELSE conns
    BY <1>2 DEF Left
  <2> HIDE DEF x, l
  <2>4. /\ l \in [DOMAIN conns -> Connection]
        /\ \A d \in DOMAIN conns :
             /\ l[d].hub = conns[d].hub /\ l[d].st = conns[d].st
             /\ l[d].groups = IF d = c /\ flag["match"] /\ conns[d].st = "connected"
                              THEN conns[d].groups \ {m} ELSE conns[d].groups
    BY <2>1, <2>2, <2>3, HubTypes
  <2>5. ASSUME NEW r \in Connection
        PROVE  LET z == [r EXCEPT !.pages = @ \ {pageOn}, !.global = FALSE] IN
                 z \in Connection /\ z.hub = r.hub /\ z.st = r.st /\ z.groups = r.groups
    BY DEF Connection
  <2>6. y \in Connection /\ y.hub = l[c].hub /\ y.st = l[c].st /\ y.groups = l[c].groups
    BY <2>1, <2>4, <2>5
  <2>7. Unheard(l) = [l EXCEPT ![c] = y]
    BY <1>2 DEF Unheard
  <2> HIDE DEF y, c
  <2>8. /\ Unheard(l) \in [DOMAIN conns -> Connection]
        /\ \A d \in DOMAIN conns :
             Unheard(l)[d].hub = l[d].hub /\ Unheard(l)[d].st = l[d].st /\ Unheard(l)[d].groups = l[d].groups
    BY <2>1, <2>4, <2>6, <2>7
  <2> QED
    BY <2>4, <2>8 DEF c, l
<1> QED
  BY <1>1, <1>2

LEMMA LeaveHubs ==
  ASSUME HubInv, Leave
  PROVE  HubInv'
<1>1. /\ conns' \in [DOMAIN conns -> Connection]
      /\ \A d \in DOMAIN conns : conns'[d].hub = conns[d].hub /\ conns'[d].st = conns[d].st
  BY LeftUnheard DEF Leave
<1>2. pageOn' \in PageCallers \cup {Null} /\ UNCHANGED <<calls, current, flag, orphans>> /\ UNCHANGED session
  BY HubTypes DEF Leave
<1>3. Quietly
  BY <1>1, <1>2, HubTypes DEF Quietly
<1> QED
  BY <1>1, <1>2, <1>3, StillStep

-----------------------------------------------------------------------------
(* The steps of the page keep its events those of its match *)

ViewRest == ViewTyped /\ CallersVisited /\ GroupsOfPage /\ EventsOfThisMatch

\* A step that leaves the page and the groups alone, and at most calls for a visit.
LEMMA CallStep ==
  ASSUME HubInv, ViewRest, UNCHANGED viewVars, UNCHANGED <<conns, orphans>>,
         NEW v \in DOMAIN visited, NEW r, calls' = [calls EXCEPT ![Page(v)] = r]
  PROVE  ViewRest'
<1>1. ViewTyped' /\ EventsOfThisMatch' /\ GroupsOfPage'
  BY DEF ViewRest, viewVars, ViewTyped, Here, EventsOfThisMatch, GroupsOfPage
<1>2. v \in PageCallers
  BY ConnectionsAssumption DEF ViewRest, ViewTyped, PageCallers
<1>3. CallersVisited'
  BY <1>2, SlotNames, ConnectionsAssumption, HubTypes DEF ViewRest, CallersVisited, viewVars
<1> QED
  BY <1>1, <1>3 DEF ViewRest

LEMMA ServiceView ==
  ASSUME HubInv, ViewRest, [ConnNext]_connVars, UNCHANGED viewVars
  PROVE  ViewRest'
<1>1. GroupsCarried /\ CallersCarried
  BY ServiceCarriesGroups, ServiceCarriesCallers
<1>2. ViewTyped'
  BY DEF ViewRest, viewVars, ViewTyped, Here
<1>3. CallersVisited'
  BY <1>1 DEF ViewRest, viewVars, CallersVisited, CallersCarried
<1>4. GroupsOfPage'
  BY <1>1 DEF ViewRest, viewVars, GroupsOfPage, GroupsCarried
<1>5. EventsOfThisMatch'
  BY <1>1 DEF ViewRest, viewVars, EventsOfThisMatch, GroupsCarried
<1> QED
  BY <1>2, <1>3, <1>4, <1>5 DEF ViewRest

LEMMA VisitView ==
  ASSUME HubInv, ViewRest, Visit
  PROVE  ViewRest'
<1>1. /\ Len(visited) \in Nat /\ MaxVisits \in Nat /\ Len(visited) < MaxVisits
      /\ Len(visited) + 1 \in PageCallers
  BY ConnectionsAssumption DEF Visit, ViewRest, ViewTyped, PageCallers
<1>2. PICK m \in Visits[Len(visited) + 1] : storedId' = m /\ visited' = Append(visited, m)
  BY DEF Visit
<1>3. m \in Matches
  BY <1>1, <1>2, ViewAssumption
<1>4. /\ visited' \in Seq(Matches) /\ Len(visited') = Len(visited) + 1 /\ visited'[Len(visited')] = m
      /\ DOMAIN visited' = DOMAIN visited \cup {Len(visited) + 1}
  BY <1>2, <1>3 DEF ViewRest, ViewTyped
<1>5. ViewTyped'
  <2>1. visited' # <<>> /\ Len(visited') <= MaxVisits
    BY <1>1, <1>4
  <2>2. open' = TRUE /\ events' = <<>> /\ sse' \in {Len(visited'), Null}
    BY DEF Visit
  <2> QED
    BY <1>4, <2>1, <2>2 DEF ViewTyped, Here
<1>6. CallersVisited'
  BY <1>1, <1>4, SlotNames, ConnectionsAssumption, HubTypes DEF Visit, ViewRest, CallersVisited
<1>7. GroupsOfPage'
  BY DEF Visit, ViewRest, GroupsOfPage
<1>8. EventsOfThisMatch'
  BY <1>2, <1>4 DEF Visit, EventsOfThisMatch
<1> QED
  BY <1>5, <1>6, <1>7, <1>8 DEF ViewRest

LEMMA InvokeView ==
  ASSUME HubInv, ViewRest, NEW v \in PageCallers, Invoke(v)
  PROVE  ViewRest'
<1> DEFINE c == current["match"]
<1>1. v \in DOMAIN visited
  BY DEF Invoke, Head1, Idle, ViewRest, CallersVisited
<1>2. UNCHANGED <<orphans, visited, open, events, sse, storedId>>
  BY DEF Invoke
<1>3. CallersVisited'
  BY <1>1, <1>2, SlotNames, ConnectionsAssumption, HubTypes DEF Invoke, ViewRest, CallersVisited
<1>4. ViewTyped'
  BY <1>2 DEF ViewRest, ViewTyped, Here
<1>5. late \subseteq late'
  BY DEF Invoke
<1>6. EventsOfThisMatch'
  BY <1>2, <1>5 DEF ViewRest, EventsOfThisMatch
<1>7. GroupsOfPage'
  <2>1. CASE "match" \in calls[Page(v)].got /\ c # Null /\ conns[c].st = "connected"
    <3>1. c \in DOMAIN conns /\ conns[c].hub = "match"
      BY <2>1, HubNames DEF HubInv, CurrentIsOfHub
    <3>2. /\ conns' = [conns EXCEPT ![c].groups = @ \cup {visited[v]}]
          /\ late' = IF Here(v) THEN late ELSE late \cup {v}
      BY <2>1 DEF Invoke
    <3>3. /\ DOMAIN conns' = DOMAIN conns
          /\ \A d \in DOMAIN conns : conns'[d].st = conns[d].st /\ conns'[d].hub = conns[d].hub
          /\ \A d \in DOMAIN conns \ {c} : conns'[d].groups = conns[d].groups
          /\ conns'[c].groups = conns[c].groups \cup {visited[v]}
      BY <3>1, <3>2, HubTypes DEF Connection
    <3> HIDE DEF c
    <3>4. SUFFICES ASSUME late' = {}, orphans' = {} PROVE GroupsOfPage'
      BY DEF GroupsOfPage
    <3>5. Here(v) /\ late = {} /\ orphans = {}
      BY <1>2, <3>2, <3>4
    <3>6. open /\ v = Len(visited) /\ conns[c].groups \subseteq {visited[Len(visited)]}
      BY <2>1, <3>1, <3>5 DEF Here, ViewRest, GroupsOfPage
    <3>7. conns'[c].groups = {visited[Len(visited)]}
      BY <3>3, <3>6
    <3> QED
      BY <1>2, <2>1, <3>1, <3>3, <3>5, <3>6, <3>7 DEF ViewRest, GroupsOfPage
  <2>2. CASE ~("match" \in calls[Page(v)].got /\ c # Null /\ conns[c].st = "connected")
    BY <2>2 DEF Invoke, ViewRest, GroupsOfPage
  <2> QED
    BY <2>1, <2>2
<1> QED
  BY <1>3, <1>4, <1>6, <1>7 DEF ViewRest

LEMMA SubscribedView ==
  ASSUME HubInv, ViewRest, NEW v \in PageCallers, Subscribed(v)
  PROVE  ViewRest'
<1> DEFINE c == current["match"]
<1>1. v \in DOMAIN visited
  BY DEF Subscribed, Idle, ViewRest, CallersVisited
<1>2. UNCHANGED <<orphans, visited, open, events, sse, storedId>> /\ late \subseteq late'
  BY DEF Subscribed
<1>3. CallersVisited'
  BY <1>1, <1>2, SlotNames, ConnectionsAssumption, HubTypes DEF Subscribed, ViewRest, CallersVisited
<1>4. ViewTyped' /\ EventsOfThisMatch'
  BY <1>2 DEF ViewRest, ViewTyped, Here, EventsOfThisMatch
<1>5. /\ DOMAIN conns' = DOMAIN conns
      /\ \A d \in DOMAIN conns :
           conns'[d].st = conns[d].st /\ conns'[d].hub = conns[d].hub /\ conns'[d].groups = conns[d].groups
  <2>1. CASE c = Null
    BY <2>1 DEF Subscribed
  <2>2. CASE c # Null
    <3>1. c \in DOMAIN conns
      BY <2>2, HubNames DEF HubInv, CurrentIsOfHub
    <3>2. conns' = [conns EXCEPT ![c].pages = (@ \ {pageOn}) \cup {v}]
      BY <2>2 DEF Subscribed
    <3> QED
      BY <3>1, <3>2, HubTypes DEF Connection
  <2> QED
    BY <2>1, <2>2
<1>6. GroupsOfPage'
  BY <1>2, <1>5 DEF ViewRest, GroupsOfPage
<1> QED
  BY <1>3, <1>4, <1>6 DEF ViewRest

LEMMA LeaveView ==
  ASSUME HubInv, ViewRest, Leave
  PROVE  ViewRest'
<1> DEFINE m == visited[Len(visited)]
<1>1. UNCHANGED <<current, flag, orphans, calls, visited, events, storedId, late>> /\ open /\ open' = FALSE /\ sse' = Null
  BY DEF Leave
<1>2. ViewTyped' /\ CallersVisited' /\ EventsOfThisMatch'
  BY <1>1 DEF ViewRest, ViewTyped, CallersVisited, EventsOfThisMatch
<1>3. /\ DOMAIN conns' = DOMAIN conns
      /\ \A d \in DOMAIN conns :
           /\ conns'[d].st = conns[d].st
           /\ conns'[d].groups = IF d = current["match"] /\ flag["match"] /\ conns[d].st = "connected"
                                 THEN conns[d].groups \ {m} ELSE conns[d].groups
  BY LeftUnheard DEF Leave
<1>4. ASSUME late = {}, orphans = {}, NEW d \in DOMAIN conns, conns'[d].groups # {},
             conns[d].st \notin {"stopping", "closed"}
      PROVE  FALSE
  <2>1. conns[d].groups # {}
    BY <1>3, <1>4
  <2>2. conns[d].st = "connected" /\ conns[d].hub = "match" /\ conns[d].groups = {m}
    BY <1>4, <2>1 DEF ViewRest, GroupsOfPage
  <2>3. current["match"] = d
    BY <1>4, <2>2 DEF HubInv, OpenIsHeld, Open
  <2>4. flag["match"]
    BY <1>4, <2>2, <2>3, HubNames, ConnsDomain DEF HubInv, FlagHonest
  <2> QED
    BY <1>3, <1>4, <2>2, <2>3, <2>4
<1>5. GroupsOfPage'
  BY <1>1, <1>3, <1>4 DEF GroupsOfPage
<1> QED
  BY <1>2, <1>5 DEF ViewRest

\* What is received: an event of the page's own match, unless something was late.
LEMMA ReceivedView ==
  ASSUME HubInv, ViewRest, NEW vs, NEW m \in Matches, NEW i \in 1 .. MaxEvents, Received(vs, m, i),
         open /\ late = {} /\ orphans = {} /\ (\E v \in vs : Here(v)) => m = visited[Len(visited)],
         open /\ late = {} /\ orphans = {} => storedId' \in {storedId, visited[Len(visited)]}
  PROVE  ViewRest'
<1>1. UNCHANGED <<conns, calls, orphans, visited, open, sse, late>>
  BY DEF Received, connVars
<1>2. CallersVisited' /\ GroupsOfPage'
  BY <1>1 DEF ViewRest, CallersVisited, GroupsOfPage
<1>3. events \in Seq(MatchEvent) /\ <<m, i>> \in MatchEvent
  BY DEF ViewRest, ViewTyped, MatchEvent
<1>4. \/ UNCHANGED events
      \/ /\ events' = Append(events, <<m, i>>) /\ (\E v \in vs : Here(v)) /\ ~Known(i)
  BY DEF Received
<1>5. ViewTyped'
  <2>1. events' \in Seq(MatchEvent)
    BY <1>3, <1>4, AppendProperties
  <2> QED
    BY <1>1, <2>1 DEF ViewRest, ViewTyped, Here
<1>6. EventsOfThisMatch'
  <2>1. CASE UNCHANGED events
    BY <1>1, <2>1 DEF ViewRest, EventsOfThisMatch
  <2>2. CASE events' = Append(events, <<m, i>>) /\ (\E v \in vs : Here(v)) /\ ~Known(i)
    <3>1. /\ Len(events) \in Nat /\ DOMAIN events = 1 .. Len(events)
          /\ DOMAIN events' = 1 .. Len(events) + 1 /\ events'[Len(events) + 1] = <<m, i>>
          /\ \A k \in 1 .. Len(events) : events'[k] = events[k]
      BY <1>3, <2>2
    <3>2. \A k, l \in DOMAIN events' : k # l => events'[k][2] # events'[l][2]
      BY <2>2, <3>1 DEF ViewRest, EventsOfThisMatch, Known
    <3>3. open /\ late = {} /\ orphans = {} => \A k \in DOMAIN events' : events'[k][1] = visited[Len(visited)]
      BY <2>2, <3>1 DEF ViewRest, EventsOfThisMatch
    <3> QED
      BY <1>1, <3>2, <3>3 DEF ViewRest, EventsOfThisMatch
  <2> QED
    BY <1>4, <2>1, <2>2
<1> QED
  BY <1>2, <1>5, <1>6 DEF ViewRest

LEMMA HearSignalRView ==
  ASSUME HubInv, ViewRest, NEW c \in DOMAIN conns, NEW m \in Matches, NEW i \in 1 .. MaxEvents,
         HearSignalR(c, m, i)
  PROVE  ViewRest'
<1>1. Received(conns[c].pages, m, i) /\ storedId' \in {m, storedId}
  BY DEF HearSignalR
<1>2. late = {} /\ orphans = {} => m = visited[Len(visited)]
  BY DEF HearSignalR, ViewRest, GroupsOfPage
<1> QED
  BY <1>1, <1>2, ReceivedView

LEMMA HearSseView ==
  ASSUME HubInv, ViewRest, NEW i \in 1 .. MaxEvents, HearSse(i)
  PROVE  ViewRest'
<1>1. Here(sse) /\ Received({sse}, visited[sse], i) /\ storedId' = storedId
  BY DEF HearSse, ViewRest, ViewTyped
<1>2. visited[sse] = visited[Len(visited)] /\ visited[sse] \in Matches
  BY <1>1 DEF Here, ViewRest, ViewTyped
<1> QED
  BY <1>1, <1>2, ReceivedView

-----------------------------------------------------------------------------
LEMMA PageInitInv == PageInit => HubInv /\ ViewRest
<1> SUFFICES ASSUME PageInit PROVE HubInv /\ ViewRest
  OBVIOUS
<1>1. HubInv
  BY HubInit DEF PageInit
<1>2. ViewTyped
  <2>1. MaxVisits \in Nat
    BY ConnectionsAssumption
  <2>2. <<>> \in Seq(Matches) /\ <<>> \in Seq(MatchEvent) /\ Len(<<>>) = 0
    OBVIOUS
  <2>3. visited = <<>> /\ events = <<>> /\ open = FALSE /\ sse = Null
    BY DEF PageInit, ViewInit
  <2>4. visited \in Seq(Matches) /\ Len(visited) <= MaxVisits /\ events \in Seq(MatchEvent)
    BY <2>1, <2>2, <2>3
  <2> QED
    BY <2>3, <2>4 DEF ViewTyped
<1>3. CallersVisited
  BY SlotNames DEF PageInit, ConnInit, CallersVisited
<1>4. GroupsOfPage
  BY DEF PageInit, ConnInit, GroupsOfPage
<1>5. EventsOfThisMatch
  BY DEF PageInit, ViewInit, EventsOfThisMatch
<1> QED
  BY <1>1, <1>2, <1>3, <1>4, <1>5 DEF ViewRest

LEMMA PageStep == HubInv /\ ViewRest /\ [PageNext]_pageVars => (HubInv /\ ViewRest)'
<1> SUFFICES ASSUME HubInv, ViewRest, [PageNext]_pageVars PROVE (HubInv /\ ViewRest)'
  OBVIOUS
<1> USE DEF ViewRest
<1>1. CASE ConnNext /\ UNCHANGED viewVars
  BY <1>1, HubStep, ServiceView
<1>2. CASE Visit
  BY <1>2, VisitHubs, VisitView
<1>3. CASE Leave
  BY <1>3, LeaveHubs, LeaveView
<1>4. ASSUME NEW v \in PageCallers, Joins(v) \/ JoinAgain(v) PROVE (HubInv /\ ViewRest)'
  <2>1. v \in DOMAIN visited
    BY <1>4 DEF Joins, JoinAgain, Idle, CallersVisited
  <2>2. \E r : calls' = [calls EXCEPT ![Page(v)] = r]
    BY <1>4 DEF Joins, JoinAgain
  <2>3. UNCHANGED viewVars /\ UNCHANGED <<conns, orphans>>
    BY <1>4 DEF Joins, JoinAgain
  <2>4. ViewRest'
    BY <2>1, <2>2, <2>3, CallStep
  <2> QED
    BY <1>4, <2>4, JoinsHubs, JoinAgainHubs
<1>5. ASSUME NEW v \in PageCallers, Invoke(v) \/ Subscribed(v) PROVE (HubInv /\ ViewRest)'
  BY <1>5, InvokeHubs, InvokeView, SubscribedHubs, SubscribedView
<1>6. ASSUME NEW c \in DOMAIN conns, NEW m \in Matches, NEW i \in 1 .. MaxEvents, HearSignalR(c, m, i)
      PROVE  (HubInv /\ ViewRest)'
  BY <1>6, HearSignalRView, HubStep DEF HearSignalR, Received
<1>7. ASSUME NEW i \in 1 .. MaxEvents, HearSse(i) PROVE (HubInv /\ ViewRest)'
  BY <1>7, HearSseView, HubStep DEF HearSse, Received
<1>8. CASE UNCHANGED pageVars
  BY <1>8, HubStep, ServiceView DEF pageVars
<1> QED
  BY <1>1, <1>2, <1>3, <1>4, <1>5, <1>6, <1>7, <1>8 DEF PageNext

\* The other pages leave the hub connections and the simulation page alone.
LEMMA PagesStep == [PagesNext]_<<page, pageVars>> => [PageNext]_pageVars
  BY DEF PagesNext

\* The simulation page shows each event index once, and only events of its own match
\* unless a join outlived its page or the service lost hold of a connection
\* (useSignalREventStream.ts:60, leaveSimulation).
THEOREM PageShowsItsMatch == PagesSpec => []EventsOfThisMatch
<1>1. PagesInit => HubInv /\ ViewRest
  BY PageInitInv DEF PagesInit
<1>2. HubInv /\ ViewRest => EventsOfThisMatch
  BY DEF ViewRest
<1> QED
  BY <1>1, <1>2, PageStep, PagesStep, PTL DEF PagesSpec

-----------------------------------------------------------------------------
(* The pages on PageShell: one is open at a time *)

\* Fields a step leaves as they are.
Same(fields) == \A x \in fields : page'[x] = page[x]

\* The steps of a page change its fields, and only a list opens another page.
Named == "name" \in DOMAIN page

LEMMA ChangeKeepsPage ==
  ASSUME Named, \E fields : Change(fields)
  PROVE  DOMAIN page' = DOMAIN page /\ page'.name = page.name
  BY DEF Change, Named

LEMMA NotesChange == NotesNext => \E fields : Change(fields)
  BY DEF NotesNext, Notified, Pushed, MarkAllAsRead, ClearAll, ToggleSelectAll, SetFilter, DeleteSelected,
         MarkAsRead, DeleteNotification, ToggleSelection, Ask, Click, NoteHandled, NoteAnswered

LEMMA SearchChange == SearchNext => \E fields : Change(fields)
  BY DEF SearchNext, Suggest, ClearRecent, ClearBoxRecent, ToggleFilters, ChangeFilters, ChangeSort, ApplyFilters,
         ResetFilters, TryAgain, AddressChanged, Type, Suggested, Search, SearchRecent, ChangePage, SearchFound, SearchFailed, SearchAnswered, Click

LEMMA LiveChange == LiveNext => \E fields : Change(fields)
  BY DEF LiveNext, MatchChanges, HubConnected, HubLost, StoredAges, Poll, HoverRefresh, TabShown,
         StatisticsPushed, LiveHandled, LiveAnswered, Click

LEMMA PlotChange == PlotNext => \E fields : Change(fields)
  BY DEF PlotNext, EventProduced, Reload, NextMatch, EventArrives, Click

LEMMA StartChange == StartNext => \E fields : Change(fields)
<1>1. PostHandled \/ PostSucceeded => \E fields : Change(fields)
  BY DEF PostHandled, PostSucceeded
<1>2. TeamsFetched \/ Begins \/ LiveEnds \/ PostAgain \/ PostFailed \/ StartTryAgain => \E fields : Change(fields)
  BY DEF TeamsFetched, Begins, LiveEnds, PostAgain, PostFailed, StartTryAgain, Click
<1>3. \A s, t : ChooseTeam(s, t) \/ ChooseSeason(s, t) => \E fields : Change(fields)
  BY DEF ChooseTeam, ChooseSeason, Click
<1>4. \A r : SeasonsFetched(r) \/ Redirected(r) => \E fields : Change(fields)
  BY DEF SeasonsFetched, Redirected
<1> QED
  BY <1>1, <1>2, <1>3, <1>4 DEF StartNext

LEMMA RegisterChange == RegisterNext => \E fields : Change(fields)
  BY DEF RegisterNext, RegisterSubmit, RegisterHandled, Registered, FillIn, TogglePassword, Click

LEMMA ProfileChange == ProfileNext => \E fields : Change(fields)
  BY DEF ProfileNext, OpenProfile, CancelEdit, SaveEdit, ChooseAvatar, SaveHandled, ImageSaved, FieldsSaved,
         NothingToSave, SaveFailed, FeedbackGone, StartEdit, Draft, Click

LEMMA ListChange == ListNext => (\E fields : Change(fields)) \/ \E c, n : page' = MatchOpened(c, n)
  BY DEF ListNext, ListChanges, ListCacheExpires, ListAnswered, ListTryAgain, ListReopened, TypeQuery,
         OpenMatch, ChooseFilter, ChooseSort, Click

LEMMA ThingChange == ThingNext => \E fields : Change(fields)
  BY DEF ThingNext, ThingFailed, ThingTryAgain, ThingAnswered, FollowLink, Click

LEMMA ShopChange == ShopNext => \E fields : Change(fields)
  BY DEF ShopNext, OpenShop, AddToCart, ToggleFavorite, OpenProduct, AddProduct, ToggleListed,
         OtherTabAdds, OtherTabSwitches, OtherTabFills, OtherTabMarks, ChooseQuantity, Click

LEMMA DemoChange == DemoNext => \E fields : Change(fields)
  BY DEF DemoNext, StreamTick, StartDemo, PauseDemo, ResetDemo, Click

LEMMA SettingsChange == SettingsNext => \E fields : Change(fields)
  BY DEF SettingsNext, SaveSettings, ResetToDefaults, LocaleFollows, LanguageReload, SettingsReload,
         ChooseTab, UpdateSetting, SetTheme, ChangeLanguage, OtherTabSaves, Click

LEMMA MatchChange == MatchNext => \E fields : Change(fields)
  BY DEF MatchNext, MatchGoesOn, MatchCacheExpires, MatchAnswered, RefreshStats, ToggleAuto, AutoRefreshes,
         MatchTabChanges, MatchTabSettles, MatchReloaded, ChooseMatchTab, Click

LEMMA PagesNamed == PagesInit => Named
<1>1. ASSUME NotesInit PROVE Named
  <2>1. PICK view, stored, asked :
          page = [name |-> "notifications", clicks |-> 0, view |-> view, stored |-> stored, pushes |-> <<>>,
                  made |-> 1, list |-> <<>>, unread |-> 0, loading |-> TRUE, busy |-> FALSE, selected |-> {},
                  onlyUnread |-> FALSE, swept |-> {}, asked |-> asked]
    BY <1>1, Zenon DEF NotesInit
  <2> QED
    BY <2>1 DEF Named
<1>11. SearchInit => Named
  BY DEF Named, SearchInit
<1>12. LiveInit => Named
  BY DEF Named, LiveInit
<1>2. PlotInit => Named
  BY DEF Named, ++, PlotInit
<1>3. ListInit => Named
  BY DEF Named, ++, ListInit
<1>4. MatchInit => Named
  BY DEF Named, ++, MatchInit, MatchOpened
<1>5. DemoInit => Named
  BY DEF Named, ++, DemoInit
<1>6. SettingsInit => Named
  BY DEF Named, ++, SettingsInit
<1>7. ShopInit => Named
  BY DEF Named, ++, ShopInit
<1>8. ProfileInit => Named
  BY DEF Named, ++, ProfileInit
<1>9. ASSUME RegisterInit PROVE Named
  <2>1. PICK form : page = [name |-> "register", clicks |-> 0, form |-> form, errors |-> {}, loading |-> FALSE,
            serverError |-> FALSE, shown |-> {}, sent |-> None, sends |-> 0, accounts |-> {}, gone |-> FALSE]
    BY <1>9 DEF RegisterInit
  <2> QED
    BY <2>1 DEF Named
<1>10. StartInit \/ ThingInit \/ ViewOpen => Named
  BY DEF Named, StartInit, ThingInit, ViewOpen
<1> QED
  BY <1>1, <1>2, <1>3, <1>4, <1>5, <1>6, <1>7, <1>8, <1>9, <1>10, <1>11, <1>12 DEF PagesInit

\* A page that is open after a step was open before it, unless it is that of a match.
LEMMA PageTurns ==
  ASSUME Named, [PagesNext]_<<page, pageVars>>
  PROVE  /\ Named'
         /\ \/ DOMAIN page' = DOMAIN page /\ page'.name = page.name
            \/ On("list") /\ \E c, n : page' = MatchOpened(c, n)
<1>1. CASE \E fields : Change(fields)
  BY <1>1, ChangeKeepsPage DEF Named
<1>2. CASE On("list") /\ \E c, n : page' = MatchOpened(c, n)
  BY <1>2 DEF Named, MatchOpened, ++
<1>3. CASE UNCHANGED page
  BY <1>3 DEF Named
<1>4. ListNext => On("list")
  BY DEF ListNext
<1>5. (\E fields : Change(fields)) \/ (On("list") /\ \E c, n : page' = MatchOpened(c, n)) \/ UNCHANGED page
  BY <1>4, NotesChange, SearchChange, LiveChange, PlotChange, StartChange, RegisterChange, ProfileChange,
     SettingsChange, ListChange, ThingChange, MatchChange, ShopChange, DemoChange DEF PagesNext
<1> QED
  BY <1>1, <1>2, <1>3, <1>5

-----------------------------------------------------------------------------
(* Induction over numbers, and sequences with elements taken out or put in *)

\* Numbers, if there are any, have a least one.
LEMMA LeastNumber ==
  ASSUME NEW T, T \subseteq Nat, T # {}
  PROVE  \E x \in T : \A y \in T : x <= y
<1> DEFINE R == OpToRel(<, Nat)
<1>1. IsWellFoundedOn(R, Nat)
  BY NatLessThanWellFounded
<1>2. \A x, y \in Nat : x < y => <<x, y>> \in R
  BY DEF OpToRel
<1> HIDE DEF R
<1>3. PICK x \in T : \A y \in T : ~ (<<y, x>> \in R)
  BY <1>1, WFMin
<1>4. x \in Nat /\ \A y \in T : y \in Nat /\ ~ (y < x)
  BY <1>2, <1>3
<1>5. \A m, n \in Nat : ~ (n < m) => m <= n
  OBVIOUS
<1> HIDE DEF R
<1> QED
  BY <1>4, <1>5

\* Induction, over a set of numbers.
LEMMA SetInduction ==
  ASSUME NEW S, 0 \in S, \A n \in Nat : n \in S => n + 1 \in S
  PROVE  Nat \subseteq S
<1> DEFINE T == Nat \ S
<1> SUFFICES ASSUME T # {} PROVE FALSE
  OBVIOUS
<1>1. PICK x \in T : \A y \in T : x <= y
  <2>1. T \subseteq Nat
    OBVIOUS
  <2> HIDE DEF T
  <2> QED
    BY <2>1, LeastNumber
<1>2. x # 0 /\ x - 1 \in Nat /\ x - 1 < x
  OBVIOUS
<1>3. x - 1 \in S
  BY <1>1, <1>2
<1> QED
  BY <1>2, <1>3

\* The recursion of Keep has a solution.
LEMMA KeepDefined ==
  ASSUME NEW A, NEW s \in Seq(A), NEW K
  PROVE  \E f : /\ DOMAIN f = 0 .. Len(s)
                /\ f = [k \in 0 .. Len(s) |->
                     IF k = 0 THEN <<>> ELSE IF s[k] \in K THEN Append(f[k - 1], s[k]) ELSE f[k - 1]]
                /\ Keep(s, K) = f[Len(s)]
<1> DEFINE Longer(f, k) == IF s[k] \in K THEN Append(f[k - 1], s[k]) ELSE f[k - 1]
           Sol(f, n) == DOMAIN f = 0 .. n /\ f[0] = <<>> /\ \A k \in 1 .. n : f[k] = Longer(f, k)
           S == {n \in Nat : \E f : Sol(f, n)}
<1>1. 0 \in S
  <2>1. Sol([k \in 0 .. 0 |-> <<>>], 0)
    OBVIOUS
  <2> QED
    BY <2>1
<1>2. ASSUME NEW n \in Nat, n \in S PROVE n + 1 \in S
  <2>1. PICK f : Sol(f, n)
    BY <1>2
  <2> DEFINE v == IF s[n + 1] \in K THEN Append(f[n], s[n + 1]) ELSE f[n]
             g == [k \in 0 .. (n + 1) |-> IF k = n + 1 THEN v ELSE f[k]]
  <2>2. DOMAIN g = 0 .. (n + 1) /\ g[n + 1] = v /\ \A k \in 0 .. n : g[k] = f[k]
    OBVIOUS
  <2> HIDE DEF g
  <2>3. \A k \in 1 .. n : g[k] = Longer(g, k)
    BY <2>1, <2>2
  <2>4. g[n + 1] = Longer(g, n + 1)
    BY <2>2
  <2>5. \A k \in 1 .. (n + 1) : k \in 1 .. n \/ k = n + 1
    OBVIOUS
  <2>6. g[0] = <<>>
    BY <2>1, <2>2
  <2> HIDE DEF v, Longer
  <2>7. Sol(g, n + 1)
    BY <2>2, <2>3, <2>4, <2>5, <2>6
  <2> HIDE DEF Sol
  <2> QED
    BY <2>7
<1>3. Len(s) \in S
  <2> HIDE DEF S
  <2> QED
    BY <1>1, <1>2, SetInduction
<1>4. PICK f : Sol(f, Len(s))
  BY <1>3
<1> DEFINE Rec(h) == h = [k \in 0 .. Len(s) |->
                     IF k = 0 THEN <<>> ELSE IF s[k] \in K THEN Append(h[k - 1], s[k]) ELSE h[k - 1]]
           r == [k \in 0 .. Len(s) |->
                     IF k = 0 THEN <<>> ELSE IF s[k] \in K THEN Append(f[k - 1], s[k]) ELSE f[k - 1]]
<1>5. Rec(r)
  <2>1. ASSUME NEW k \in 0 .. Len(s) PROVE r[k] = f[k]
    <3>1. CASE k = 0
      BY <1>4, <3>1
    <3>2. CASE k # 0
      <4>1. k \in 1 .. Len(s)
        BY <3>2
      <4>2. f[k] = Longer(f, k)
        BY <1>4, <4>1
      <4> QED
        BY <3>2, <4>2
    <3> QED
      BY <3>1, <3>2
  <2>2. \A k \in 1 .. Len(s) : k - 1 \in 0 .. Len(s)
    OBVIOUS
  <2>3. \A k \in 1 .. Len(s) : r[k - 1] = f[k - 1]
    BY <2>1, <2>2
  <2>4. DOMAIN r = 0 .. Len(s) /\ r = [k \in 0 .. Len(s) |-> r[k]]
    OBVIOUS
  <2>5. \A k \in 0 .. Len(s) : r[k] = IF k = 0 THEN <<>> ELSE IF s[k] \in K THEN Append(f[k - 1], s[k]) ELSE f[k - 1]
    OBVIOUS
  <2>6. \A k \in 0 .. Len(s) : k = 0 \/ k \in 1 .. Len(s)
    OBVIOUS
  <2> HIDE DEF r
  <2>7. \A k \in 0 .. Len(s) : r[k] = IF k = 0 THEN <<>> ELSE IF s[k] \in K THEN Append(r[k - 1], s[k]) ELSE r[k - 1]
    BY <2>3, <2>5, <2>6
  <2> QED
    BY <2>4, <2>7
<1> DEFINE c == CHOOSE h : Rec(h)
<1>6. Rec(c)
  <2> HIDE DEF Rec
  <2> QED
    BY <1>5
<1>7. Keep(s, K) = c[Len(s)]
  BY DEF Keep
<1>8. DOMAIN c = 0 .. Len(s)
  BY <1>6
<1> HIDE DEF c
<1> QED
  BY <1>6, <1>7, <1>8
\* The elements kept are those of the sequence that are in K, each as often as it is there.
LEMMA KeepIn ==
  ASSUME NEW A, NEW s \in Seq(A), NEW K
  PROVE  /\ Keep(s, K) \in Seq(A)
         /\ Len(Keep(s, K)) <= Len(s)
         /\ \A i \in DOMAIN Keep(s, K) : Keep(s, K)[i] \in K /\ \E j \in DOMAIN s : Keep(s, K)[i] = s[j]
         /\ (\A i, j \in DOMAIN s : s[i] = s[j] => i = j)
              => \A i, j \in DOMAIN Keep(s, K) : Keep(s, K)[i] = Keep(s, K)[j] => i = j
<1>1. PICK f : /\ DOMAIN f = 0 .. Len(s)
               /\ f = [k \in 0 .. Len(s) |->
                     IF k = 0 THEN <<>> ELSE IF s[k] \in K THEN Append(f[k - 1], s[k]) ELSE f[k - 1]]
               /\ Keep(s, K) = f[Len(s)]
  BY KeepDefined
<1>2. Len(s) \in Nat /\ DOMAIN s = 1 .. Len(s)
  OBVIOUS
<1> DEFINE Inj == \A i, j \in DOMAIN s : s[i] = s[j] => i = j
           P(k) == /\ f[k] \in Seq(A) /\ Len(f[k]) <= k
                   /\ \A i \in 1 .. Len(f[k]) : f[k][i] \in K /\ \E j \in 1 .. k : f[k][i] = s[j]
                   /\ Inj => \A i, j \in 1 .. Len(f[k]) : f[k][i] = f[k][j] => i = j
           S == {k \in Nat : k <= Len(s) => P(k)}
<1>3. f[0] = <<>>
  <2>1. 0 \in 0 .. Len(s)
    BY <1>2
  <2> QED
    BY <1>1, <2>1
<1>4. 0 \in S
  <2>1. <<>> \in Seq(A) /\ Len(<<>>) = 0 /\ 1 .. 0 = {}
    OBVIOUS
  <2>2. P(0)
    BY <1>3, <2>1
  <2> HIDE DEF P
  <2> QED
    BY <2>2
<1>5. ASSUME NEW n \in Nat, n \in S PROVE n + 1 \in S
  <2> SUFFICES ASSUME n + 1 <= Len(s) PROVE P(n + 1)
    OBVIOUS
  <2>1. P(n)
    BY <1>2, <1>5
  <2>2. f[n + 1] = IF s[n + 1] \in K THEN Append(f[n], s[n + 1]) ELSE f[n]
    <3>1. n + 1 \in 0 .. Len(s) /\ n + 1 # 0 /\ (n + 1) - 1 = n
      BY <1>2
    <3> QED
      BY <1>1, <3>1
  <2>3. s[n + 1] \in A /\ n + 1 \in DOMAIN s /\ \A j \in 1 .. n : j \in DOMAIN s /\ j # n + 1
    BY <1>2
  <2>4. CASE s[n + 1] \notin K
    BY <2>1, <2>2, <2>4
  <2>5. CASE s[n + 1] \in K
    <3> DEFINE g == f[n]  x == s[n + 1]  h == Append(g, x)
    <3>1. /\ g \in Seq(A) /\ Len(g) <= n
          /\ \A i \in 1 .. Len(g) : g[i] \in K /\ \E j \in 1 .. n : g[i] = s[j]
          /\ Inj => \A i, j \in 1 .. Len(g) : g[i] = g[j] => i = j
      BY <2>1
    <3>2. x \in A /\ x \in K
      BY <2>3, <2>5
    <3>3. f[n + 1] = h
      BY <2>2, <2>5
    <3>4. Inj => \A j \in 1 .. n : s[j] # x
      BY <2>3
    <3>5. 1 .. n \subseteq 1 .. (n + 1) /\ n + 1 \in 1 .. (n + 1)
      OBVIOUS
    <3> HIDE DEF g, Inj
    <3>6. /\ h \in Seq(A) /\ Len(h) = Len(g) + 1 /\ h[Len(g) + 1] = x
          /\ \A i \in 1 .. Len(g) : h[i] = g[i]
      BY <3>1, <3>2
    <3>7. \A i \in 1 .. (Len(g) + 1) : i \in 1 .. Len(g) \/ i = Len(g) + 1
      BY <3>1
    <3>8. x = s[n + 1]
      OBVIOUS
    <3> HIDE DEF h, x
    <3>9. ASSUME NEW i \in 1 .. Len(h) PROVE h[i] \in K /\ \E j \in 1 .. (n + 1) : h[i] = s[j]
      <4>1. i \in 1 .. Len(g) \/ i = Len(g) + 1
        BY <3>6, <3>7
      <4>2. CASE i \in 1 .. Len(g)
        <5>1. h[i] = g[i] /\ g[i] \in K
          BY <3>1, <3>6, <4>2
        <5>2. PICK j \in 1 .. n : g[i] = s[j]
          BY <3>1, <4>2
        <5> QED
          BY <3>5, <5>1, <5>2
      <4>3. CASE i = Len(g) + 1
        BY <3>2, <3>5, <3>6, <3>8, <4>3
      <4> QED
        BY <4>1, <4>2, <4>3
    <3>10. ASSUME Inj, NEW i \in 1 .. Len(h), NEW j \in 1 .. Len(h), h[i] = h[j] PROVE i = j
      <4>1. \A m \in 1 .. Len(h) : m \in 1 .. Len(g) \/ m = Len(g) + 1
        BY <3>6, <3>7
      <4>2. \A m \in 1 .. Len(g) : h[m] = g[m] /\ g[m] # x
        BY <3>1, <3>4, <3>6, <3>10
      <4>3. h[Len(g) + 1] = x
        BY <3>6
      <4>4. \A k, m \in 1 .. Len(g) : g[k] = g[m] => k = m
        BY <3>1, <3>10
      <4>5. CASE i \in 1 .. Len(g) /\ j \in 1 .. Len(g)
        BY <3>10, <4>2, <4>4, <4>5
      <4>6. CASE ~(i \in 1 .. Len(g) /\ j \in 1 .. Len(g))
        BY <3>10, <4>1, <4>2, <4>3, <4>6
      <4> QED
        BY <4>5, <4>6
    <3>11. Len(h) <= n + 1
      BY <3>1, <3>6
    <3> QED
      BY <3>3, <3>6, <3>9, <3>10, <3>11
  <2> QED
    BY <2>4, <2>5
<1>6. P(Len(s))
  <2>1. Len(s) \in S
    <3> HIDE DEF S
    <3> QED
      BY <1>2, <1>4, <1>5, SetInduction
  <2> QED
    BY <1>2, <2>1
<1>7. DOMAIN f[Len(s)] = 1 .. Len(f[Len(s)])
  BY <1>6
<1> QED
  BY <1>1, <1>2, <1>6, <1>7

\* What is left without one element.
LEMMA RemovedAt ==
  ASSUME NEW A, NEW s \in Seq(A), NEW k \in DOMAIN s
  PROVE  /\ RemoveAt(s, k) \in Seq(A) /\ Len(RemoveAt(s, k)) = Len(s) - 1
         /\ \A i \in DOMAIN RemoveAt(s, k) :
              RemoveAt(s, k)[i] = IF i < k THEN s[i] ELSE s[i + 1]
<1>1. k \in 1 .. Len(s) /\ Len(s) \in Nat
  OBVIOUS
<1>2. SubSeq(s, 1, k - 1) \in Seq(A) /\ SubSeq(s, k + 1, Len(s)) \in Seq(A)
      /\ Len(SubSeq(s, 1, k - 1)) = k - 1 /\ Len(SubSeq(s, k + 1, Len(s))) = Len(s) - k
      /\ (\A i \in 1 .. (k - 1) : SubSeq(s, 1, k - 1)[i] = s[i])
      /\ \A i \in 1 .. (Len(s) - k) : SubSeq(s, k + 1, Len(s))[i] = s[k + i]
  BY <1>1
<1> DEFINE a == SubSeq(s, 1, k - 1)  b == SubSeq(s, k + 1, Len(s))
<1>3. RemoveAt(s, k) = a \o b
  BY DEF RemoveAt
<1> HIDE DEF a, b
<1>4. a \in Seq(A) /\ b \in Seq(A) /\ Len(a) = k - 1 /\ Len(b) = Len(s) - k
  BY <1>2 DEF a, b
<1>5. /\ a \o b \in Seq(A) /\ Len(a \o b) = Len(s) - 1
      /\ \A i \in 1 .. (Len(s) - 1) : (a \o b)[i] = IF i <= k - 1 THEN a[i] ELSE b[i - (k - 1)]
  BY <1>1, <1>4
<1>6. DOMAIN (a \o b) = 1 .. (Len(s) - 1)
  BY <1>5
<1>7. ASSUME NEW i \in 1 .. (Len(s) - 1) PROVE (a \o b)[i] = IF i < k THEN s[i] ELSE s[i + 1]
  <2>1. CASE i < k
    BY <1>1, <1>2, <1>5, <2>1 DEF a
  <2>2. CASE ~(i < k)
    <3>1. i - (k - 1) \in 1 .. (Len(s) - k) /\ k + (i - (k - 1)) = i + 1
      BY <1>1, <2>2
    <3>2. (a \o b)[i] = b[i - (k - 1)]
      BY <1>1, <1>5, <2>2
    <3>3. b[i - (k - 1)] = s[k + (i - (k - 1))]
      BY <1>2, <3>1 DEF b
    <3> QED
      BY <2>2, <3>1, <3>2, <3>3
  <2> QED
    BY <2>1, <2>2
<1> QED
  BY <1>3, <1>5, <1>6, <1>7

\* One sequence behind another.
LEMMA Joined ==
  ASSUME NEW A, NEW a \in Seq(A), NEW b \in Seq(A)
  PROVE  /\ a \o b \in Seq(A) /\ Len(a \o b) = Len(a) + Len(b)
         /\ \A i \in 1 .. (Len(a) + Len(b)) : (a \o b)[i] = IF i <= Len(a) THEN a[i] ELSE b[i - Len(a)]
  OBVIOUS

\* What is put in at a place moves the rest up by one.
LEMMA InsertedAt ==
  ASSUME NEW A, NEW s \in Seq(A), NEW x \in A, NEW p \in 1 .. (Len(s) + 1)
  PROVE  /\ InsertAt(s, p, x) \in Seq(A) /\ Len(InsertAt(s, p, x)) = Len(s) + 1
         /\ \A i \in 1 .. (Len(s) + 1) :
              InsertAt(s, p, x)[i] = IF i < p THEN s[i] ELSE IF i = p THEN x ELSE s[i - 1]
<1>1. Len(s) \in Nat /\ p \in Nat /\ 1 <= p /\ p <= Len(s) + 1
  OBVIOUS
<1> DEFINE a == SubSeq(s, 1, p - 1)  b == <<x>>  c == SubSeq(s, p, Len(s))
<1>2. /\ a \in Seq(A) /\ Len(a) = p - 1 /\ \A i \in 1 .. (p - 1) : a[i] = s[i]
      /\ c \in Seq(A) /\ Len(c) = Len(s) - p + 1 /\ \A i \in 1 .. (Len(s) - p + 1) : c[i] = s[p + i - 1]
      /\ b \in Seq(A) /\ Len(b) = 1 /\ b[1] = x
  BY <1>1
<1>3. InsertAt(s, p, x) = (a \o b) \o c
  BY DEF InsertAt
<1> HIDE DEF a, b, c
<1> DEFINE ab == a \o b
<1>0. ab = a \o b
  OBVIOUS
<1> HIDE DEF ab
<1>4. ab \in Seq(A) /\ Len(ab) = p /\ \A i \in 1 .. p : ab[i] = IF i <= p - 1 THEN a[i] ELSE b[i - (p - 1)]
  <2>1. a \in Seq(A) /\ b \in Seq(A) /\ Len(a) = p - 1 /\ Len(b) = 1
    BY <1>2
  <2>2. Len(a \o b) = Len(a) + Len(b) /\ a \o b \in Seq(A)
    BY <2>1, Joined
  <2>3. \A i \in 1 .. (Len(a) + Len(b)) : (a \o b)[i] = IF i <= Len(a) THEN a[i] ELSE b[i - Len(a)]
    BY <2>1, Joined
  <2>4. (p - 1) + 1 = p
    BY <1>1
  <2> QED
    BY <1>0, <1>1, <2>1, <2>2, <2>3, <2>4
<1>5. /\ ab \o c \in Seq(A) /\ Len(ab \o c) = Len(s) + 1
      /\ \A i \in 1 .. (Len(s) + 1) : (ab \o c)[i] = IF i <= p THEN ab[i] ELSE c[i - p]
  <2>1. Len(c) = Len(s) - p + 1 /\ c \in Seq(A) /\ ab \in Seq(A) /\ Len(ab) = p
    BY <1>2, <1>4
  <2>2. Len(ab \o c) = Len(ab) + Len(c) /\ ab \o c \in Seq(A)
    BY <2>1, Joined
  <2>3. \A i \in 1 .. (Len(ab) + Len(c)) : (ab \o c)[i] = IF i <= Len(ab) THEN ab[i] ELSE c[i - Len(ab)]
    BY <2>1
  <2>4. p + (Len(s) - p + 1) = Len(s) + 1
    BY <1>1
  <2> QED
    BY <1>1, <2>1, <2>2, <2>3, <2>4
<1>6. ASSUME NEW i \in 1 .. (Len(s) + 1)
      PROVE  (ab \o c)[i] = IF i < p THEN s[i] ELSE IF i = p THEN x ELSE s[i - 1]
  <2>1. CASE i < p
    <3>1. i \in 1 .. p /\ i \in 1 .. (p - 1) /\ i <= p /\ i <= p - 1
      BY <1>1, <2>1
    <3>2. (ab \o c)[i] = ab[i]
      BY <1>5, <3>1
    <3>3. ab[i] = a[i]
      BY <1>4, <3>1
    <3>4. a[i] = s[i]
      BY <1>2, <3>1
    <3> QED
      BY <2>1, <3>2, <3>3, <3>4
  <2>2. CASE i = p
    <3>1. i - (p - 1) = 1 /\ ~(i <= p - 1)
      BY <1>1, <2>2
    <3> QED
      BY <1>1, <1>2, <1>4, <1>5, <2>2, <3>1
  <2>3. CASE i > p
    <3>1. i - p \in 1 .. (Len(s) - p + 1) /\ p + (i - p) - 1 = i - 1
      BY <1>1, <2>3
    <3>2. (ab \o c)[i] = c[i - p]
      BY <1>1, <1>5, <2>3
    <3>3. c[i - p] = s[p + (i - p) - 1]
      BY <1>2, <3>1
    <3> QED
      BY <1>1, <2>3, <3>1, <3>2, <3>3
  <2>4. i < p \/ i = p \/ i > p
    BY <1>1
  <2> QED
    BY <2>1, <2>2, <2>3, <2>4
<1> QED
  BY <1>3, <1>5, <1>6 DEF ab

\* What is appended is added to the elements.
LEMMA AppendedSet ==
  ASSUME NEW A, NEW s \in Seq(A), NEW x \in A
  PROVE  /\ ToSet(Append(s, x)) = ToSet(s) \cup {x}
         /\ DOMAIN Append(s, x) = DOMAIN s \cup {Len(s) + 1} /\ Append(s, x)[Len(s) + 1] = x
         /\ \A i \in DOMAIN s : Append(s, x)[i] = s[i]
<1> DEFINE t == Append(s, x)
<1>1. /\ t \in Seq(A) /\ Len(t) = Len(s) + 1 /\ Len(s) \in Nat /\ t[Len(s) + 1] = x
      /\ \A i \in 1 .. Len(s) : t[i] = s[i]
  OBVIOUS
<1>2. DOMAIN t = (1 .. Len(s)) \cup {Len(s) + 1} /\ DOMAIN s = 1 .. Len(s)
  BY <1>1
<1> HIDE DEF t
<1>3. ToSet(t) = ToSet(s) \cup {x}
  BY <1>1, <1>2 DEF ToSet
<1> QED
  BY <1>1, <1>2, <1>3 DEF t

\* The elements kept are all of those of the sequence that are in K.
LEMMA KeptSet ==
  ASSUME NEW A, NEW s \in Seq(A), NEW K
  PROVE  ToSet(Keep(s, K)) = ToSet(s) \cap K
<1>1. PICK f : /\ DOMAIN f = 0 .. Len(s)
               /\ f = [k \in 0 .. Len(s) |->
                     IF k = 0 THEN <<>> ELSE IF s[k] \in K THEN Append(f[k - 1], s[k]) ELSE f[k - 1]]
               /\ Keep(s, K) = f[Len(s)]
  BY KeepDefined
<1>2. Len(s) \in Nat /\ DOMAIN s = 1 .. Len(s) /\ \A k \in 1 .. Len(s) : s[k] \in A
  OBVIOUS
<1> DEFINE P(k) == f[k] \in Seq(A) /\ ToSet(f[k]) = {s[j] : j \in 1 .. k} \cap K
           S == {k \in Nat : k <= Len(s) => P(k)}
<1>3. f[0] = <<>>
  <2>1. 0 \in 0 .. Len(s)
    BY <1>2
  <2> QED
    BY <1>1, <2>1
<1>4. 0 \in S
  <2>1. <<>> \in Seq(A) /\ DOMAIN <<>> = {} /\ 1 .. 0 = {}
    OBVIOUS
  <2>2. P(0)
    BY <1>3, <2>1 DEF ToSet
  <2> HIDE DEF P
  <2> QED
    BY <2>2
<1>5. ASSUME NEW n \in Nat, n \in S PROVE n + 1 \in S
  <2> SUFFICES ASSUME n + 1 <= Len(s) PROVE P(n + 1)
    OBVIOUS
  <2>1. P(n)
    BY <1>2, <1>5
  <2>2. f[n + 1] = IF s[n + 1] \in K THEN Append(f[n], s[n + 1]) ELSE f[n]
    <3>1. n + 1 \in 0 .. Len(s) /\ n + 1 # 0 /\ (n + 1) - 1 = n
      BY <1>2
    <3> QED
      BY <1>1, <3>1
  <2>3. s[n + 1] \in A
    BY <1>2
  <2>4. {s[j] : j \in 1 .. (n + 1)} = {s[j] : j \in 1 .. n} \cup {s[n + 1]}
    <3>1. 1 .. (n + 1) = (1 .. n) \cup {n + 1}
      OBVIOUS
    <3> QED
      BY <3>1
  <2>5. ToSet(Append(f[n], s[n + 1])) = ToSet(f[n]) \cup {s[n + 1]}
    BY <2>1, <2>3, AppendedSet
  <2>6. CASE s[n + 1] \in K
    BY <2>1, <2>2, <2>3, <2>4, <2>5, <2>6
  <2>7. CASE s[n + 1] \notin K
    BY <2>1, <2>2, <2>4, <2>7
  <2> QED
    BY <2>6, <2>7
<1>6. P(Len(s))
  <2>1. Len(s) \in S
    <3> HIDE DEF S
    <3> QED
      BY <1>2, <1>4, <1>5, SetInduction
  <2> QED
    BY <1>2, <2>1
<1>7. ToSet(s) = {s[j] : j \in 1 .. Len(s)}
  BY <1>2 DEF ToSet
<1> QED
  BY <1>1, <1>6, <1>7

-----------------------------------------------------------------------------
(* The start of a simulation *)

StartFields == {"name", "clicks", "teams", "side", "waits", "status", "asked", "posted", "live", "started",
                "storedMatch", "redirects", "gone"}
SideChoice == [team : Teams \cup {None}, seasons : SUBSET Nat, season : Nat \cup {None}]
\* A season is one of the team's.
ChoiceOK(c) ==
  /\ c \in SideChoice
  /\ c.team # None => c.seasons = SeasonsOf[c.team]
  /\ c.season # None => c.team # None /\ c.season \in c.seasons

StartedMatch == [Sides -> Teams \X Nat]
MatchOK(c) ==
  /\ c["home"][1] # c["away"][1]
  /\ \A s \in Sides : c[s][2] \in SeasonsOf[c[s][1]]
PostAnswer == [code : Nat, match : Nat \cup {None}]
Post == [chosen : StartedMatch, tries : Nat, answer : PostAnswer \cup {None}]
\* A POST carries a match as it may be started, and its answer names the last one made.
PostOK(p, n) ==
  /\ p \in Post /\ MatchOK(p.chosen)
  /\ (p.answer # None /\ p.answer.code = 200) => p.answer.match = n /\ n # 0

StartTyped ==
  /\ DOMAIN page = StartFields
  /\ page.teams # None => page.teams \subseteq Teams
  /\ page.asked \subseteq [side : Sides, team : Teams]
  /\ page.started \in Seq(StartedMatch)
SidesOK == page.side \in [Sides -> SideChoice] /\ \A s \in Sides : ChoiceOK(page.side[s])
PostedOK == page.posted # None => PostOK(page.posted, Len(page.started))
StartedOK ==
  /\ \A m \in DOMAIN page.started : MatchOK(page.started[m])
  /\ \A m \in page.redirects \cup ({page.gone} \ {None}) :
       m \in DOMAIN page.started /\ page.storedMatch # None /\ m <= page.storedMatch
  /\ page.status = "success" => page.storedMatch \in DOMAIN page.started

StartInv == StartTyped /\ SidesOK /\ PostedOK /\ StartedOK

LEMMA StartInvMeans == StartInv /\ On("start") => StartsWhatWasChosen
  BY DEF StartInv, StartedOK, MatchOK, StartsWhatWasChosen

LEMMA StartInitInv == StartInit => StartInv
<1> SUFFICES ASSUME StartInit PROVE StartInv
  OBVIOUS
<1>1. StartTyped
  BY EmptySeq DEF StartInit, StartTyped, StartFields
<1>2. SidesOK
  BY NoneAssumption DEF StartInit, SidesOK, ChoiceOK, NoChoice, SideChoice
<1>3. PostedOK
  BY DEF StartInit, PostedOK
<1>4. StartedOK
  BY DEF StartInit, StartedOK
<1> QED
  BY <1>1, <1>2, <1>3, <1>4 DEF StartInv

LEMMA StartStep ==
  ASSUME On("start"), StartInv, StartNext
  PROVE  StartInv'
<1>1. /\ DOMAIN page = StartFields
      /\ page.teams # None => page.teams \subseteq Teams
      /\ page.asked \subseteq [side : Sides, team : Teams]
      /\ page.started \in Seq(StartedMatch)
  BY DEF StartInv, StartTyped
<1>2. CASE TeamsFetched
  <2>1. DOMAIN page' = StartFields /\ page'.teams \subseteq Teams /\ Same(StartFields \ {"teams"})
    BY <1>1, <1>2 DEF TeamsFetched, Change, Same, StartFields
  <2> QED
    BY <2>1 DEF StartInv, StartTyped, SidesOK, PostedOK, StartedOK, Same, StartFields
<1>3. ASSUME NEW s \in Sides, NEW t \in Teams, ChooseTeam(s, t) PROVE StartInv'
  <2>1. /\ DOMAIN page' = StartFields /\ page'.asked = page.asked \cup {[side |-> s, team |-> t]}
        /\ Same(StartFields \ {"asked", "waits", "clicks"})
    BY <1>1, <1>3 DEF ChooseTeam, Click, Change, ++, Same, StartFields
  <2>2. page'.asked \subseteq [side : Sides, team : Teams]
    BY <1>1, <2>1
  <2> QED
    BY <2>1, <2>2 DEF StartInv, StartTyped, SidesOK, PostedOK, StartedOK, Same, StartFields
<1>4. ASSUME NEW r \in page.asked, SeasonsFetched(r) PROVE StartInv'
  <2>1. /\ DOMAIN page' = StartFields /\ page'.asked = page.asked \ {r}
        /\ page'.side \in {page.side, Taken(r.side, r.team)} /\ Same(StartFields \ {"asked", "waits", "side"})
    BY <1>1, <1>4 DEF SeasonsFetched, Change, Same, StartFields
  <2>2. SidesOK'
    <3> DEFINE c == [team |-> r.team, seasons |-> SeasonsOf[r.team], season |-> None]
    <3>1. r.side \in Sides /\ r.team \in Teams
      BY <1>1
    <3>2. ChoiceOK(c)
      BY <3>1, StartAssumption DEF ChoiceOK, SideChoice
    <3>3. Taken(r.side, r.team) = [page.side EXCEPT ![r.side] = c]
      BY DEF Taken
    <3> HIDE DEF c
    <3> QED
      BY <2>1, <3>1, <3>2, <3>3 DEF StartInv, SidesOK, ChoiceOK
  <2> QED
    BY <1>1, <2>1, <2>2 DEF StartInv, StartTyped, PostedOK, StartedOK, Same, StartFields
<1>5. ASSUME NEW s \in Sides, NEW n \in page.side[s].seasons, ChooseSeason(s, n) PROVE StartInv'
  <2> DEFINE c == [page.side[s] EXCEPT !.season = n]
  <2>1. /\ DOMAIN page' = StartFields /\ page'.side = [page.side EXCEPT ![s] = c]
        /\ Same(StartFields \ {"clicks", "side"}) /\ page.side[s].team # None
    BY <1>1, <1>5 DEF ChooseSeason, Click, Change, ++, Same, StartFields
  <2>2. ASSUME NEW r \in SideChoice, ChoiceOK(r), r.team # None, n \in r.seasons
        PROVE  ChoiceOK([r EXCEPT !.season = n])
    BY <2>2 DEF ChoiceOK, SideChoice
  <2>4. ChoiceOK(c)
    BY <2>1, <2>2 DEF StartInv, SidesOK, ChoiceOK
  <2> HIDE DEF c
  <2>3. SidesOK'
    BY <2>1, <2>4 DEF StartInv, SidesOK, ChoiceOK
  <2> QED
    BY <1>1, <2>1, <2>3 DEF StartInv, StartTyped, PostedOK, StartedOK, Same, StartFields
<1>6. CASE Begins
  <2> DEFINE p == [chosen |-> Chosen, tries |-> 1, answer |-> None]
  <2>1. /\ DOMAIN page' = StartFields /\ page'.posted = p /\ page'.status = "loading"
        /\ Same(StartFields \ {"clicks", "status", "posted"}) /\ CanStart
    BY <1>1, <1>6 DEF Begins, Preview, Click, Change, ++, Same, StartFields
  <2>2. Chosen \in StartedMatch /\ MatchOK(Chosen)
    BY <2>1, StartAssumption DEF CanStart, Chosen, MatchOK, StartedMatch, Sides, StartInv, SidesOK, ChoiceOK, SideChoice
  <2>3. PostOK(p, Len(page.started))
    BY <2>2 DEF PostOK, Post
  <2> HIDE DEF p
  <2> QED
    BY <1>1, <2>1, <2>3 DEF StartInv, StartTyped, SidesOK, PostedOK, StartedOK, Same, StartFields
<1>7. CASE PostHandled
  <2> DEFINE p(a) == [page.posted EXCEPT !.answer = a]
             m == Len(page.started) + 1
  <2>1. page.posted \in Post /\ MatchOK(page.posted.chosen)
    BY <1>7 DEF PostHandled, StartInv, PostedOK, PostOK
  <2>2. m \in Nat /\ Len(page.started) \in Nat
    BY <1>1
  <2>3. ASSUME NEW a \in PostAnswer PROVE p(a) \in Post /\ p(a).chosen = page.posted.chosen /\ p(a).answer = a
    BY <2>1 DEF Post
  <2>4. CASE /\ DOMAIN page' = StartFields /\ Same(StartFields \ {"posted"})
             /\ \E a \in {Handled503, [code |-> 400, match |-> None]} : page'.posted = p(a)
    <3>1. PICK a \in {Handled503, [code |-> 400, match |-> None]} : page'.posted = p(a)
      BY <2>4
    <3>2. a \in PostAnswer /\ a.code # 200
      BY <3>1 DEF PostAnswer, Handled503
    <3>3. PostOK(page'.posted, Len(page.started))
      BY <2>1, <2>3, <3>1, <3>2 DEF PostOK
    <3> QED
      BY <1>1, <2>4, <3>3 DEF StartInv, StartTyped, SidesOK, PostedOK, StartedOK, Same, StartFields
  <2>5. CASE /\ DOMAIN page' = StartFields /\ Same(StartFields \ {"posted", "live", "started"})
             /\ page'.started = Append(page.started, page.posted.chosen)
             /\ page'.posted = p([code |-> 200, match |-> m])
    <3>1. [code |-> 200, match |-> m] \in PostAnswer
      BY <2>2 DEF PostAnswer
    <3>2. /\ page'.started \in Seq(StartedMatch) /\ Len(page'.started) = m
          /\ DOMAIN page.started \subseteq DOMAIN page'.started
          /\ \A k \in DOMAIN page'.started : page'.started[k] = page.posted.chosen \/ (k \in DOMAIN page.started /\ page'.started[k] = page.started[k])
      BY <1>1, <2>1, <2>5 DEF Post
    <3>3. PostOK(page'.posted, m)
      BY <2>1, <2>2, <2>3, <2>5, <3>1 DEF PostOK
    <3>4. StartTyped'
      BY <1>1, <2>5, <3>2 DEF StartTyped, Same, StartFields
    <3>5. StartedOK'
      BY <2>1, <2>5, <3>2 DEF StartInv, StartedOK, Same, StartFields
    <3> QED
      BY <2>5, <3>2, <3>3, <3>4, <3>5 DEF StartInv, SidesOK, PostedOK, Same, StartFields
  <2>7. \/ Change([posted |-> p(Handled503)]) \/ Change([posted |-> p([code |-> 400, match |-> None])])
        \/ Change([live |-> m, started |-> Append(page.started, page.posted.chosen),
                   posted |-> p([code |-> 200, match |-> m])])
    BY <1>7 DEF PostHandled
  <2> HIDE DEF p
  <2>6. \/ /\ DOMAIN page' = StartFields /\ Same(StartFields \ {"posted"})
           /\ \E a \in {Handled503, [code |-> 400, match |-> None]} : page'.posted = p(a)
        \/ /\ DOMAIN page' = StartFields /\ Same(StartFields \ {"posted", "live", "started"})
           /\ page'.started = Append(page.started, page.posted.chosen)
           /\ page'.posted = p([code |-> 200, match |-> m])
    BY <1>1, <2>7 DEF Change, Same, StartFields
  <2> QED
    BY <2>4, <2>5, <2>6
<1>8. CASE LiveEnds
  <2>1. DOMAIN page' = StartFields /\ Same(StartFields \ {"live"})
    BY <1>1, <1>8 DEF LiveEnds, Change, Same, StartFields
  <2> QED
    BY <1>1, <2>1 DEF StartInv, StartTyped, SidesOK, PostedOK, StartedOK, Same, StartFields
<1>9. CASE PostAgain
  <2> DEFINE p == [page.posted EXCEPT !.tries = @ + 1, !.answer = None]
  <2>1. DOMAIN page' = StartFields /\ page'.posted = p /\ Same(StartFields \ {"posted"})
    BY <1>1, <1>9 DEF PostAgain, Change, Same, StartFields
  <2>2. page.posted \in Post /\ MatchOK(page.posted.chosen)
    BY <1>9 DEF PostAgain, StartInv, PostedOK, PostOK
  <2>4. ASSUME NEW r \in Post, NEW n \in Nat
        PROVE  LET q == [r EXCEPT !.tries = n, !.answer = None] IN
                 q \in Post /\ q.chosen = r.chosen /\ q.answer = None
    BY DEF Post
  <2>6. page.posted.tries + 1 \in Nat
    BY <2>2 DEF Post
  <2>7. p = [page.posted EXCEPT !.tries = page.posted.tries + 1, !.answer = None]
    OBVIOUS
  <2>5. p \in Post /\ p.chosen = page.posted.chosen /\ p.answer = None
    BY <2>2, <2>4, <2>6, <2>7
  <2> HIDE DEF p
  <2>3. PostOK(p, Len(page.started))
    BY <2>2, <2>5 DEF PostOK
  <2> QED
    BY <1>1, <2>1, <2>3 DEF StartInv, StartTyped, SidesOK, PostedOK, StartedOK, Same, StartFields
<1>10. CASE PostSucceeded
  <2> DEFINE m == page.posted.answer.match
  <2>1. /\ DOMAIN page' = StartFields /\ page'.status = "success" /\ page'.storedMatch = m
        /\ page'.redirects = page.redirects \cup {m} /\ page'.posted = None
        /\ Same(StartFields \ {"status", "storedMatch", "redirects", "posted"})
        /\ page.posted # None /\ page.posted.answer # None /\ page.posted.answer.code = 200
    BY <1>1, <1>10 DEF PostSucceeded, Code, Change, Same, StartFields
  <2>2. m = Len(page.started) /\ m # 0 /\ m \in Nat /\ DOMAIN page.started = 1 .. m /\ m # None
    BY <1>1, <2>1, NoneAssumption DEF StartInv, PostedOK, PostOK
  <2> HIDE DEF m
  <2>4. page'.started = page.started /\ page'.gone = page.gone
    BY <2>1 DEF Same, StartFields
  <2>5. ASSUME NEW k \in page'.redirects \cup ({page'.gone} \ {None})
        PROVE  k \in DOMAIN page'.started /\ page'.storedMatch # None /\ k <= page'.storedMatch
    <3>1. k = m \/ k \in page.redirects \cup ({page.gone} \ {None})
      BY <2>1, <2>4
    <3>2. k \in 1 .. m
      BY <2>2, <3>1 DEF StartInv, StartedOK
    <3> QED
      BY <2>1, <2>2, <2>4, <3>2
  <2>3. StartedOK'
    BY <2>1, <2>2, <2>4, <2>5 DEF StartInv, StartedOK
  <2> QED
    BY <1>1, <2>1, <2>3 DEF StartInv, StartTyped, SidesOK, PostedOK, Same, StartFields
<1>11. CASE PostFailed \/ StartTryAgain
  <2>1. /\ DOMAIN page' = StartFields /\ page'.status \in {"error", "idle"} /\ page'.posted \in {None, page.posted}
        /\ Same(StartFields \ {"status", "posted", "clicks"})
    BY <1>1, <1>11 DEF PostFailed, StartTryAgain, Click, Change, ++, Same, StartFields
  <2> QED
    BY <1>1, <2>1 DEF StartInv, StartTyped, SidesOK, PostedOK, StartedOK, Same, StartFields
<1>12. ASSUME NEW m \in page.redirects, Redirected(m) PROVE StartInv'
  <2>1. /\ DOMAIN page' = StartFields /\ page'.gone = m /\ page'.redirects = page.redirects \ {m}
        /\ Same(StartFields \ {"gone", "redirects"})
    BY <1>1, <1>12 DEF Redirected, Change, Same, StartFields
  <2> QED
    BY <1>1, <2>1 DEF StartInv, StartTyped, SidesOK, PostedOK, StartedOK, Same, StartFields
<1> QED
  BY <1>2, <1>3, <1>4, <1>5, <1>6, <1>7, <1>8, <1>9, <1>10, <1>11, <1>12 DEF StartNext

-----------------------------------------------------------------------------
(* The registration form *)

RegisterFields == {"name", "clicks", "form", "errors", "loading", "serverError", "shown", "sent", "sends",
                   "accounts", "gone"}
Form == [RegisterInputs -> Entries]
RegisterTyped ==
  /\ DOMAIN page = RegisterFields
  /\ page.form \in Form /\ page.accounts \subseteq Form
  /\ page.loading \in BOOLEAN /\ page.gone \in BOOLEAN /\ page.serverError \in BOOLEAN
\* Every form that is sent was accepted, and stays what it was.
SentOK ==
  page.sent # None =>
    /\ page.sent \in SentForm /\ Errors(page.sent.form) = {}
    /\ page.sent.answer = "made" => page.accounts # {}
    /\ ~page.gone /\ ~page.serverError
\* An account as the rules of the form and the server let it be.
AccountOK(a) == Errors(a) = {} /\ a["age"] # ""
AccountsOK ==
  /\ \A a \in page.accounts : AccountOK(a)
  /\ \A a, b \in page.accounts : a["email"] = b["email"] => a = b
  /\ page.gone => page.accounts # {} /\ ~page.serverError
  /\ page.loading <=> page.sent # None

RegisterInv == RegisterTyped /\ SentOK /\ AccountsOK

LEMMA NoErrors ==
  ASSUME NEW a, Errors(a) = {}
  PROVE  /\ a["password"] = a["confirmPassword"]
         /\ \A f \in {"firstName", "lastName", "userName", "email", "password"} : a[f] \notin {"", "bad"}
<1>1. ErrorsButMismatch(a) = {} /\ ~(a["password"] # a["confirmPassword"])
  BY DEF Errors
<1>2. {f \in {"firstName", "lastName", "email", "password"} : a[f] \in {"", "bad"}} = {}
      /\ ~(a["userName"] \in {"", "bad"})
  BY <1>1 DEF ErrorsButMismatch
<1> QED
  BY <1>1, <1>2

LEMMA RegisterInitInv == RegisterInit => RegisterInv
<1> SUFFICES ASSUME RegisterInit PROVE RegisterInv
  OBVIOUS
<1>1. PICK form \in {[f \in RegisterInputs |-> ""], [f \in RegisterInputs |-> IF f = "age" THEN "" ELSE "ok"]} :
          page = [name |-> "register", clicks |-> 0, form |-> form, errors |-> {}, loading |-> FALSE,
            serverError |-> FALSE, shown |-> {}, sent |-> None, sends |-> 0, accounts |-> {}, gone |-> FALSE]
  BY DEF RegisterInit
<1>2. form \in Form
  BY AccountAssumption DEF Form, Entries
<1> QED
  BY <1>1, <1>2 DEF RegisterInv, RegisterTyped, RegisterFields, SentOK, AccountsOK

LEMMA RegisterStep ==
  ASSUME On("register"), RegisterInv, RegisterNext
  PROVE  RegisterInv'
<1>1. DOMAIN page = RegisterFields /\ page.form \in Form /\ page.accounts \subseteq Form
  BY DEF RegisterInv, RegisterTyped
<1>2. CASE RegisterSubmit
  <2>1. CASE /\ DOMAIN page' = RegisterFields /\ page'.serverError = FALSE /\ ~page.loading
             /\ Same(RegisterFields \ {"clicks", "errors", "serverError"})
    BY <1>1, <2>1 DEF RegisterInv, RegisterTyped, SentOK, AccountsOK, Same, RegisterFields
  <2>2. CASE /\ DOMAIN page' = RegisterFields /\ page'.serverError = FALSE /\ page'.loading = TRUE
             /\ page'.sent = [form |-> page.form, answer |-> None]
             /\ ~page.gone /\ Errors(page.form) = {}
             /\ Same(RegisterFields \ {"clicks", "errors", "serverError", "loading", "sends", "sent"})
    <3>1. page'.sent \in SentForm /\ page'.sent # None /\ page'.sent.form = page.form /\ page'.sent.answer = None
      <4>1. page'.sent \in SentForm
        BY <1>1, <2>2 DEF SentForm, Form
      <4>2. page'.sent # None
        BY <4>1, AccountAssumption
      <4> QED
        BY <2>2, <4>1, <4>2
    <3>2. page'.sent.answer # "made"
      BY <3>1, AccountAssumption
    <3>3. SentOK'
      BY <2>2, <3>1, <3>2 DEF SentOK, Same, RegisterFields
    <3>4. AccountsOK'
      BY <2>2, <3>1 DEF RegisterInv, AccountsOK, Same, RegisterFields
    <3> QED
      BY <1>1, <2>2, <3>3, <3>4 DEF RegisterInv, RegisterTyped, Same, RegisterFields
  <2>3. CASE Errors(page.form) # {}
    BY <1>1, <1>2, <2>1, <2>3 DEF RegisterSubmit, CanRegister, Click, Change, ++, Same, RegisterFields
  <2>4. CASE Errors(page.form) = {}
    BY <1>1, <1>2, <2>2, <2>4 DEF RegisterSubmit, CanRegister, Click, Change, ++, Same, RegisterFields
  <2> QED
    BY <2>3, <2>4
<1>3. CASE RegisterHandled
  <2> DEFINE form == page.sent.form
             ok == Registrable(form)
             q == [page.sent EXCEPT !.answer = IF ok THEN "made" ELSE "refused"]
  <2>1. /\ DOMAIN page' = RegisterFields /\ page'.sent = q
        /\ page'.accounts = IF ok THEN page.accounts \cup {form} ELSE page.accounts
        /\ Same(RegisterFields \ {"sent", "accounts"}) /\ page.sent # None
    BY <1>1, <1>3 DEF RegisterHandled, Change, Same, RegisterFields
  <2>2. page.sent \in SentForm /\ form \in Form
    BY <2>1 DEF RegisterInv, SentOK, SentForm, Form
  <2>3. ASSUME NEW r \in SentForm, NEW a \in {"made", "refused"}
        PROVE  LET s == [r EXCEPT !.answer = a] IN s \in SentForm /\ s.form = r.form /\ s.answer = a
    BY DEF SentForm
  <2>4. q \in SentForm /\ q.form = form /\ q.answer = IF ok THEN "made" ELSE "refused"
    BY <2>2, <2>3
  <2>5. ok => AccountOK(form) /\ \A a \in page.accounts : a["email"] # form["email"]
    BY <2>1 DEF Registrable, AccountOK, RegisterInv, SentOK
  <2> HIDE DEF q, ok, form
  <2>6. page'.accounts \subseteq Form /\ page.accounts \subseteq page'.accounts
    BY <1>1, <2>1, <2>2
  <2>7. /\ \A a \in page'.accounts : AccountOK(a)
        /\ \A a, b \in page'.accounts : a["email"] = b["email"] => a = b
    BY <2>1, <2>5 DEF RegisterInv, AccountsOK
  <2>8. SentOK'
    <3>1. q.answer = "made" => ok
      BY <2>4
    <3>2. Errors(form) = {} /\ ~page.gone /\ ~page.serverError
      BY <2>1 DEF RegisterInv, SentOK, form
    <3> QED
      BY <2>1, <2>4, <3>1, <3>2 DEF SentOK, Same, RegisterFields
  <2>9. AccountsOK'
    <3>1. q # None
      BY <2>4, AccountAssumption
    <3> QED
      BY <2>1, <2>6, <2>7, <3>1 DEF RegisterInv, AccountsOK, Same, RegisterFields
  <2> QED
    BY <1>1, <2>1, <2>6, <2>8, <2>9 DEF RegisterInv, RegisterTyped, Same, RegisterFields
<1>4. CASE Registered
  <2>1. \/ /\ page.sent.answer = "made" /\ page'.gone = TRUE /\ page'.serverError = page.serverError
        \/ page'.gone = page.gone /\ page'.serverError = TRUE
    BY <1>1, <1>4 DEF Registered, Change, RegisterFields
  <2>2. /\ DOMAIN page' = RegisterFields /\ page'.loading = FALSE /\ page'.sent = None /\ page.sent # None
        /\ Same(RegisterFields \ {"loading", "sent", "gone", "serverError"})
    BY <1>1, <1>4 DEF Registered, Change, Same, RegisterFields
  <2> QED
    BY <1>1, <2>1, <2>2 DEF RegisterInv, RegisterTyped, SentOK, AccountsOK, Same, RegisterFields
<1>5. ASSUME NEW f \in RegisterInputs, NEW v \in Entries, FillIn(f, v) PROVE RegisterInv'
  <2>1. /\ DOMAIN page' = RegisterFields /\ page'.form = [page.form EXCEPT ![f] = v]
        /\ Same(RegisterFields \ {"clicks", "form", "errors"})
    BY <1>1, <1>5 DEF FillIn, Click, Change, ++, Same, RegisterFields
  <2>2. page'.form \in Form
    BY <1>1, <2>1 DEF Form
  <2> QED
    BY <1>1, <2>1, <2>2 DEF RegisterInv, RegisterTyped, SentOK, AccountsOK, Same, RegisterFields
<1>6. ASSUME NEW f \in PasswordInputs, TogglePassword(f) PROVE RegisterInv'
  <2>1. DOMAIN page' = RegisterFields /\ Same(RegisterFields \ {"clicks", "shown"})
    BY <1>1, <1>6 DEF TogglePassword, Click, Change, ++, Same, RegisterFields
  <2> QED
    BY <1>1, <2>1 DEF RegisterInv, RegisterTyped, SentOK, AccountsOK, Same, RegisterFields
<1> QED
  BY <1>2, <1>3, <1>4, <1>5, <1>6 DEF RegisterNext

-----------------------------------------------------------------------------
(* The profile *)

CardFields == {"profile", "known", "card", "edit", "draft", "file", "saving", "feedback"}
ProfilePage == CardFields \cup {"name", "clicks", "server", "images", "cached", "localName", "puts", "lost"}
ProfileTyped ==
  /\ DOMAIN page = ProfilePage
  /\ page.profile \in Profile /\ page.card \in Profile /\ page.server \in Profile
  /\ page.known \in BOOLEAN /\ page.lost \in BOOLEAN /\ page.file \in BOOLEAN
  /\ page.cached \in {None, Answer}
  /\ page.draft \in Texts /\ page.edit \in ProfileFields \cup {None}
\* What the card shows is what is being saved, and every difference is sent; without an
\* id there always is one, and no PUT of it.
SavingOK ==
  page.saving # None =>
    /\ page.saving \in Save /\ page.feedback = None
    /\ page.saving.card = page.card /\ page.saving.known = page.known
    /\ \A g \in ProfileFields : g \in page.saving.fields <=> page.card[g] # page.profile[g]
    /\ page.saving.handled => page.known
    /\ ~page.known /\ page.saving.step = "fields" => page.saving.fields # {}
SavedNow == page.saving # None /\ page.saving.step = "fields" /\ page.saving.handled
\* The server holds the profile, unless a save is done and not yet answered.
HeldOK ==
  /\ ~page.known => page.profile = Answer
  /\ page.known /\ ~page.lost =>
       \A f \in ServerFields : page.server[f] = IF SavedNow THEN page.card[f] ELSE page.profile[f]
  /\ page.feedback = "success" /\ ~page.lost => \A f \in ServerFields : page.server[f] = page.card[f]

ProfileInv == ProfileTyped /\ SavingOK /\ HeldOK

LEMMA ProfileInitInv == ProfileInit => ProfileInv
<1> SUFFICES ASSUME ProfileInit PROVE ProfileInv
  OBVIOUS
<1>1. /\ DOMAIN page = ProfilePage
      /\ page.profile = Stored /\ page.card = Stored /\ page.server = Stored
      /\ page.known = TRUE /\ page.lost = FALSE /\ page.cached = None /\ page.draft = ""
      /\ page.edit = None /\ page.saving = None /\ page.feedback = None /\ page.file = FALSE
  BY DEF ProfileInit, Shows, ++, ProfilePage, CardFields
<1>2. Stored \in Profile
  BY DEF Stored, Profile, Texts
<1> QED
  BY <1>1, <1>2, AccountAssumption DEF ProfileInv, ProfileTyped, SavingOK, HeldOK, SavedNow, Texts

LEMMA ProfileFrame ==
  ASSUME ProfileInv, DOMAIN page' = ProfilePage,
         Same({"profile", "known", "card", "server", "lost", "cached", "saving", "file"}),
         page'.draft \in Texts, page'.edit \in ProfileFields \cup {None}, page'.feedback \in {page.feedback, None}
  PROVE  ProfileInv'
<1>1. /\ page'.profile = page.profile /\ page'.known = page.known /\ page'.card = page.card
      /\ page'.server = page.server /\ page'.lost = page.lost /\ page'.cached = page.cached
      /\ page'.saving = page.saving /\ page'.file = page.file
  BY DEF Same
<1>2. SavedNow' = SavedNow
  BY <1>1 DEF SavedNow
<1>3. page'.feedback = "success" => page.feedback = "success"
  BY AccountAssumption
<1>4. HeldOK'
  BY <1>1, <1>2, <1>3 DEF ProfileInv, HeldOK
<1>5. SavingOK'
  BY <1>1 DEF ProfileInv, SavingOK
<1> QED
  BY <1>1, <1>4, <1>5 DEF ProfileInv, ProfileTyped

\* What a save starts with.
LEMMA SaveBegins ==
  ASSUME ProfileInv, NEW card \in Profile, NEW f \in ProfileFields, NEW file \in BOOLEAN,
         page.saving = None,
         page'.file \in BOOLEAN,
         ~page.known => file \/ \E g \in ProfileFields : card[g] # None,
         DOMAIN page' = ProfilePage,
         \A x \in {"card", "feedback", "saving"} : page'[x] = Begun(card, f, file)[x],
         Same(ProfilePage \ {"card", "feedback", "saving", "clicks", "edit", "file"}),
         page'.edit \in ProfileFields \cup {None}
  PROVE  ProfileInv'
<1> DEFINE s == page'.saving
<1>1. /\ page'.card = card /\ page'.feedback = None
      /\ s = [step |-> IF file THEN "image" ELSE "fields", card |-> card, fields |-> Changed(card, f),
               known |-> page.known, file |-> page.file, handled |-> FALSE]
  BY DEF Begun
<1>2. Changed(card, f) \subseteq ProfileFields
  BY DEF Changed
<1>3. page.known \in BOOLEAN /\ page.file \in BOOLEAN
  BY DEF ProfileInv, ProfileTyped
<1>4. s \in Save /\ s.card = card /\ s.known = page.known /\ s.handled = FALSE /\ s.fields = Changed(card, f)
      /\ s.step = IF file THEN "image" ELSE "fields"
  BY <1>1, <1>2, <1>3 DEF Save
<1> HIDE DEF s
<1>5. page'.profile = page.profile /\ page'.known = page.known /\ page'.server = page.server /\ page'.lost = page.lost
  BY DEF Same, ProfilePage, CardFields
<1>6. ~page.known => file \/ Changed(card, f) # {}
  BY DEF Changed, ProfileInv, HeldOK, Answer
<1>7. SavingOK'
  BY <1>1, <1>4, <1>5, <1>6 DEF SavingOK, Changed, s
<1>8. HeldOK'
  BY <1>1, <1>4, <1>5, AccountAssumption DEF HeldOK, SavedNow, ProfileInv, s
<1> QED
  BY <1>1, <1>7, <1>8 DEF ProfileInv, ProfileTyped, Same, ProfilePage, CardFields

LEMMA ProfileStep ==
  ASSUME On("profile"), ProfileInv, ProfileNext
  PROVE  ProfileInv'
<1>1. DOMAIN page = ProfilePage
  BY DEF ProfileInv, ProfileTyped
<1>2. CASE OpenProfile
  <2>1. /\ DOMAIN page' = ProfilePage /\ page'.profile = Fetched /\ page'.card = Fetched
        /\ page'.known = (page.cached = None) /\ page'.edit = None /\ page'.draft = ""
        /\ page'.saving = None /\ page'.feedback = None /\ page'.file = FALSE
        /\ Same({"server", "cached", "lost"})
    BY <1>1, <1>2 DEF OpenProfile, Shows, Click, Change, ++, Same, ProfilePage, CardFields
  <2>2. Answer \in Profile
    BY DEF Answer, Profile
  <2>3. ProfileTyped'
    BY <2>1, <2>2 DEF ProfileInv, ProfileTyped, Fetched, Same, Texts
  <2>4. HeldOK'
    BY <2>1, AccountAssumption DEF ProfileInv, ProfileTyped, HeldOK, SavedNow, Fetched, Same
  <2> QED
    BY <2>1, <2>3, <2>4 DEF ProfileInv, SavingOK
<1>3. CASE CancelEdit \/ \E f \in ProfileFields : StartEdit(f)
  <2>1. /\ DOMAIN page' = ProfilePage /\ page'.edit \in ProfileFields \cup {None}
        /\ page'.draft \in {page.draft, ""} \cup {page.card[f] : f \in {g \in ProfileFields : page.card[g] # None}}
        /\ Same(ProfilePage \ {"edit", "draft", "clicks"})
    BY <1>1, <1>3 DEF CancelEdit, StartEdit, Click, Change, ++, Same, ProfilePage, CardFields
  <2>2. page'.draft \in Texts
    BY <2>1 DEF ProfileInv, ProfileTyped, Profile, Texts
  <2> QED
    BY <2>1, <2>2, ProfileFrame DEF Same, ProfilePage, CardFields
<1>4. ASSUME NEW v \in {"ok", "ok2"}, Draft(v) PROVE ProfileInv'
  <2>1. DOMAIN page' = ProfilePage /\ page'.draft = v /\ Same(ProfilePage \ {"draft", "clicks"})
    BY <1>1, <1>4 DEF Draft, Click, Change, ++, Same, ProfilePage, CardFields
  <2>2. page'.draft \in Texts /\ page'.edit \in ProfileFields \cup {None}
    BY <2>1 DEF ProfileInv, ProfileTyped, Texts, Same, ProfilePage, CardFields
  <2> QED
    BY <2>1, <2>2, ProfileFrame DEF Same, ProfilePage, CardFields
<1>5. CASE SaveEdit
  <2> DEFINE card == [page.card EXCEPT ![page.edit] = page.draft]
  <2>1. /\ DOMAIN page' = ProfilePage /\ page'.edit = None /\ page.edit # None /\ page.saving = None
        /\ \A x \in {"card", "feedback", "saving"} : page'[x] = Begun(card, page.edit, page.file)[x]
        /\ Same(ProfilePage \ {"card", "feedback", "saving", "clicks", "edit"})
    BY <1>1, <1>5 DEF SaveEdit, Begun, Click, Change, ++, Same, ProfilePage, CardFields
  <2>2. page.edit \in ProfileFields
    BY <2>1 DEF ProfileInv, ProfileTyped
  <2>3. card \in Profile /\ card[page.edit] # None
    BY <2>2, AccountAssumption DEF ProfileInv, ProfileTyped, Profile, Texts
  <2> HIDE DEF card
  <2>4. Same(ProfilePage \ {"card", "feedback", "saving", "clicks", "edit", "file"})
    BY <2>1 DEF Same
  <2>5. page.file \in BOOLEAN /\ page'.file = page.file
    BY <2>1 DEF ProfileInv, ProfileTyped, Same, ProfilePage, CardFields
  <2> QED
    BY <2>1, <2>2, <2>3, <2>4, <2>5, SaveBegins
<1>6. CASE ChooseAvatar
  <2>1. /\ DOMAIN page' = ProfilePage /\ page.saving = None /\ page'.file = TRUE
        /\ \A x \in {"card", "feedback", "saving"} : page'[x] = Begun(page.card, "email", TRUE)[x]
        /\ Same(ProfilePage \ {"card", "feedback", "saving", "clicks", "file"})
    BY <1>1, <1>6 DEF ChooseAvatar, Begun, Click, Change, ++, Same, ProfilePage, CardFields
  <2>2. page.card \in Profile /\ page'.edit \in ProfileFields \cup {None} /\ "email" \in ProfileFields
    BY <2>1 DEF ProfileInv, ProfileTyped, Same, ProfilePage, CardFields, ProfileFields
  <2>4. Same(ProfilePage \ {"card", "feedback", "saving", "clicks", "edit", "file"})
    BY <2>1 DEF Same
  <2> QED
    BY <2>1, <2>2, <2>4, SaveBegins
<1>7. CASE SaveHandled
  <2> DEFINE s == page.saving
             q == [s EXCEPT !.handled = TRUE]
  <2>1. /\ DOMAIN page' = ProfilePage /\ page'.saving = q /\ s # None /\ s.known /\ ~s.handled
        /\ s.step = "image" \/ s.fields # {}
        /\ page'.server = IF s.step = "image" THEN page.server
                          ELSE [f \in ProfileFields |->
                                 IF f \in s.fields \cap ServerFields THEN s.card[f] ELSE page.server[f]]
        /\ Same(ProfilePage \ {"saving", "server", "puts", "images"})
    BY <1>1, <1>7 DEF SaveHandled, Change, ++, Same, ProfilePage, CardFields
  <2>2. s \in Save /\ page.feedback = None /\ s.card = page.card /\ s.known = page.known
        /\ \A g \in ProfileFields : g \in page.saving.fields <=> page.card[g] # page.profile[g]
    BY <2>1 DEF ProfileInv, SavingOK
  <2>3. \A r \in Save : LET t == [r EXCEPT !.handled = TRUE] IN
          /\ t \in Save /\ t.step = r.step /\ t.card = r.card /\ t.fields = r.fields /\ t.known = r.known
          /\ t.file = r.file /\ t.handled = TRUE
    BY DEF Save
  <2>4. /\ q \in Save /\ q.step = s.step /\ q.card = s.card /\ q.fields = s.fields /\ q.known = s.known
        /\ q.file = s.file /\ q.handled = TRUE
    BY <2>2, <2>3
  <2>5. page.server \in Profile /\ page.card \in Profile /\ page.profile \in Profile
    BY DEF ProfileInv, ProfileTyped
  <2>6. page'.server \in Profile
    BY <2>1, <2>2, <2>5 DEF Profile
  <2> HIDE DEF q, s
  <2>7. Same({"feedback", "card", "profile", "known", "lost"})
    BY <2>1 DEF Same, ProfilePage, CardFields
  <2>8. SavingOK'
    BY <2>1, <2>2, <2>4, <2>7 DEF SavingOK, ProfileInv, Same, s
  <2>9. HeldOK'
    <3>1. ServerFields \subseteq ProfileFields
      BY DEF ServerFields, ProfileFields
    <3>2. ~SavedNow
      BY <2>1 DEF SavedNow, s
    <3>3. ~page.lost => \A f \in ServerFields : page.server[f] = page.profile[f]
      BY <2>1, <2>2, <3>2 DEF ProfileInv, HeldOK
    <3>4. page.known = TRUE
      BY <2>1, <2>2 DEF ProfileInv, ProfileTyped
    <3>5. CASE s.step = "image"
      <4>1. ~SavedNow'
        BY <2>1, <2>4, <3>5 DEF SavedNow
      <4> QED
        BY <2>1, <2>2, <2>7, <3>3, <3>4, <3>5, <4>1, AccountAssumption DEF HeldOK, Same
    <3>6. CASE s.step # "image"
      <4>1. ~page.lost => \A f \in ServerFields : page'.server[f] = page.card[f]
        BY <2>1, <2>2, <2>5, <3>1, <3>3, <3>6 DEF Profile, s
      <4>2. SavedNow' \/ page'.saving = None
        BY <2>1, <2>2, <2>4, <3>6 DEF SavedNow, Save
      <4>3. page'.saving # None
        BY <2>1, <2>4, AccountAssumption
      <4> QED
        BY <2>1, <2>2, <2>7, <3>4, <4>1, <4>2, <4>3, AccountAssumption DEF HeldOK, Same
    <3> QED
      BY <3>5, <3>6
  <2> QED
    BY <2>1, <2>6, <2>8, <2>9 DEF ProfileInv, ProfileTyped, Same, ProfilePage, CardFields
<1>8. CASE ImageSaved
  <2> DEFINE s == page.saving
             q == [s EXCEPT !.step = "fields", !.handled = FALSE]
  <2>1. /\ DOMAIN page' = ProfilePage /\ page'.saving = q /\ s # None /\ s.handled /\ s.step = "image"
        /\ page'.cached = Answer
        /\ Same(ProfilePage \ {"saving", "cached"})
    BY <1>1, <1>8 DEF ImageSaved, Change, Same, ProfilePage, CardFields
  <2>2. s \in Save
    BY <2>1 DEF ProfileInv, SavingOK
  <2>3. \A r \in Save : LET t == [r EXCEPT !.step = "fields", !.handled = FALSE] IN
          /\ t \in Save /\ t.step = "fields" /\ t.card = r.card /\ t.fields = r.fields /\ t.known = r.known
          /\ t.file = r.file /\ t.handled = FALSE
    BY DEF Save
  <2>4. /\ q \in Save /\ q.step = "fields" /\ q.card = s.card /\ q.fields = s.fields /\ q.known = s.known
        /\ q.file = s.file /\ q.handled = FALSE
    BY <2>2, <2>3
  <2> HIDE DEF q
  <2>7. Same({"feedback", "card", "profile", "known", "lost", "server"})
    BY <2>1 DEF Same, ProfilePage, CardFields
  <2>8. SavingOK'
    BY <2>1, <2>2, <2>4, <2>7 DEF SavingOK, ProfileInv, Same
  <2>9. HeldOK'
    BY <2>1, <2>4, <2>7 DEF HeldOK, ProfileInv, Same, SavedNow
  <2> QED
    BY <2>1, <2>8, <2>9 DEF ProfileInv, ProfileTyped, Same, ProfilePage, CardFields
<1>9. CASE FieldsSaved
  <2>1. /\ DOMAIN page' = ProfilePage /\ page'.saving = None /\ SavedNow
        /\ page'.cached = Answer /\ page'.profile = Answer /\ page'.known = FALSE /\ page'.feedback = "success"
        /\ page'.file \in BOOLEAN
        /\ Same({"card", "lost", "server", "edit", "draft"})
    BY <1>1, <1>9 DEF FieldsSaved, Done, SavedNow, Change, ++, Same, ProfilePage, CardFields
  <2>2. Answer \in Profile
    BY DEF Answer, Profile
  <2>3. ~page.lost => \A f \in ServerFields : page.server[f] = page.card[f]
    BY <2>1 DEF ProfileInv, HeldOK, SavingOK, SavedNow
  <2> QED
    BY <2>1, <2>2, <2>3 DEF ProfileInv, ProfileTyped, SavingOK, HeldOK, Same
<1>10. CASE NothingToSave
  <2>1. /\ DOMAIN page' = ProfilePage /\ page'.saving = None /\ page'.feedback = "success"
        /\ page.saving # None /\ page.saving.step = "fields" /\ page.saving.fields = {}
        /\ page'.file \in BOOLEAN
        /\ Same(ProfilePage \ {"saving", "feedback", "file"})
    BY <1>1, <1>10 DEF NothingToSave, Done, Change, ++, Same, ProfilePage, CardFields
  <2>2. page.known /\ \A f \in ProfileFields : page.card[f] = page.profile[f]
    BY <2>1 DEF ProfileInv, SavingOK
  <2>3. ~page.lost => \A f \in ServerFields : page.server[f] = page.card[f]
    BY <2>2 DEF ProfileInv, HeldOK, ServerFields, ProfileFields
  <2>4. HeldOK'
    BY <2>1, <2>2, <2>3 DEF HeldOK, SavedNow, ServerFields, ProfileFields, Same, ProfilePage, CardFields
  <2> QED
    BY <2>1, <2>4 DEF ProfileInv, ProfileTyped, SavingOK, Same, ProfilePage, CardFields
<1>11. CASE SaveFailed
  <2>1. /\ DOMAIN page' = ProfilePage /\ page'.saving = None /\ page'.feedback = "error"
        /\ page.saving # None /\ page'.lost = (page.lost \/ page.saving.handled)
        /\ page'.file \in BOOLEAN
        /\ Same(ProfilePage \ {"saving", "feedback", "file", "lost"})
    BY <1>1, <1>11 DEF SaveFailed, Done, Change, ++, Same, ProfilePage, CardFields
  <2>2. page'.lost \in BOOLEAN /\ (~page'.lost => ~page.lost /\ ~SavedNow)
    BY <2>1 DEF ProfileInv, SavingOK, ProfileTyped, SavedNow, Save
  <2>4. HeldOK'
    BY <2>1, <2>2 DEF ProfileInv, HeldOK, SavedNow, Same, ProfilePage, CardFields
  <2> QED
    BY <2>1, <2>2, <2>4 DEF ProfileInv, ProfileTyped, SavingOK, Same, ProfilePage, CardFields
<1>12. CASE FeedbackGone
  <2>1. DOMAIN page' = ProfilePage /\ page'.feedback = None /\ Same(ProfilePage \ {"feedback"})
    BY <1>1, <1>12 DEF FeedbackGone, Change, Same, ProfilePage, CardFields
  <2>2. page'.draft \in Texts /\ page'.edit \in ProfileFields \cup {None}
    BY <2>1 DEF ProfileInv, ProfileTyped, Same, ProfilePage, CardFields
  <2> QED
    BY <2>1, <2>2, ProfileFrame DEF Same, ProfilePage, CardFields
<1> QED
  BY <1>2, <1>3, <1>4, <1>5, <1>6, <1>7, <1>8, <1>9, <1>10, <1>11, <1>12 DEF ProfileNext

-----------------------------------------------------------------------------
(* The panel of the live match *)

LiveFields == {"name", "clicks", "live", "pushed", "cached", "match", "stats", "loading", "error", "refreshing",
               "connected", "groups", "leaving", "listener", "stored", "old", "storedMatch", "swapped", "asked"}
\* The listener is of the match shown, the link and the numbers too.
FollowsMatch ==
  /\ ~page.connected => page.groups = {} /\ page.leaving = {}
  /\ page.connected /\ page.match # None => page.listener = page.match
  /\ page.match # None => page.storedMatch = page.match
  /\ page.match # None /\ page.stats # None /\ ~page.swapped => page.stats.match = page.match
LiveInv ==
  /\ DOMAIN page = LiveFields
  /\ page.connected \in BOOLEAN /\ page.swapped \in BOOLEAN
  /\ page.stats # None => page.stats = page.stored
  /\ FollowsMatch

LEMMA LiveInvMeans == LiveInv /\ On("live") => NumbersOfThisMatch
  BY DEF LiveInv, FollowsMatch, NumbersOfThisMatch, Panel, Numbers, SimulationUrl

LEMMA LiveInitInv == LiveInit => LiveInv
  BY DEF LiveInit, LiveInv, LiveFields, FollowsMatch

\* A match came, or none, and the hub follows it.
LEMMA Followed ==
  ASSUME LiveInv, NEW m, NEW stats, NEW stored, NEW swapped \in BOOLEAN,
         DOMAIN page' = LiveFields, Same({"connected"}),
         page'.stats = stats, page'.stored = stored, page'.swapped = swapped, page'.storedMatch = m,
         stats # None => stats = stored,
         m # None /\ stats # None /\ ~swapped => stats.match = m,
         \A x \in {"match", "groups", "leaving", "listener"} :
           page'[x] = IF x \in DOMAIN Following(m) THEN Following(m)[x] ELSE page[x]
  PROVE  LiveInv'
<1>1. CASE m = page.match \/ ~page.connected
  <2>1. Following(m) = [match |-> m]
    BY <1>1 DEF Following
  <2>2. page'.match = m /\ Same({"groups", "leaving", "listener", "connected"})
    BY <2>1 DEF Same
  <2> QED
    BY <1>1, <2>2 DEF LiveInv, FollowsMatch, Same
<1>2. CASE ~(m = page.match \/ ~page.connected)
  <2>1. Following(m) = [match |-> m, groups |-> (page.groups \ {page.match}) \cup ({m} \ {None}),
                        leaving |-> page.groups \ {m}, listener |-> IF m = None THEN page.listener ELSE m]
    BY <1>2 DEF Following
  <2>2. page'.match = m /\ (m # None => page'.listener = m) /\ page'.connected
    BY <1>2, <2>1 DEF Same
  <2> QED
    BY <2>2 DEF LiveInv, FollowsMatch, Same
<1> QED
  BY <1>1, <1>2

\* The fields of a request's answer over those that follow the match.
LEMMA Overlaid ==
  ASSUME DOMAIN page = LiveFields, NEW a, NEW b, NEW c, NEW d,
         DOMAIN a \subseteq {"asked"}, DOMAIN b \subseteq {"loading", "refreshing"},
         DOMAIN c \subseteq {"stats", "stored", "swapped", "storedMatch", "error"},
         DOMAIN d \subseteq {"match", "groups", "leaving", "listener"},
         Change(a ++ (b ++ (c ++ d)))
  PROVE  /\ DOMAIN page' = LiveFields /\ page'.connected = page.connected
         /\ \A x \in {"stats", "stored", "swapped", "storedMatch"} : page'[x] = IF x \in DOMAIN c THEN c[x] ELSE page[x]
         /\ \A x \in {"match", "groups", "leaving", "listener"} : page'[x] = IF x \in DOMAIN d THEN d[x] ELSE page[x]
<1> DEFINE cd == c ++ d
           bcd == b ++ cd
           abcd == a ++ bcd
<1>1. /\ DOMAIN cd = DOMAIN c \cup DOMAIN d
      /\ \A x \in {"stats", "stored", "swapped", "storedMatch"} : x \in DOMAIN cd <=> x \in DOMAIN c
      /\ \A x \in {"match", "groups", "leaving", "listener"} : x \in DOMAIN cd <=> x \in DOMAIN d
      /\ \A x \in DOMAIN c : cd[x] = c[x]
      /\ \A x \in DOMAIN d : cd[x] = d[x]
  BY DEF ++
<1> HIDE DEF cd
<1>2. /\ DOMAIN bcd = DOMAIN b \cup DOMAIN cd
      /\ \A x : x \notin {"loading", "refreshing"} => (x \in DOMAIN bcd <=> x \in DOMAIN cd)
      /\ \A x \in DOMAIN cd : x \notin {"loading", "refreshing"} => bcd[x] = cd[x]
  BY DEF ++
<1> HIDE DEF bcd
<1>3. /\ \A x : x # "asked" => (x \in DOMAIN abcd <=> x \in DOMAIN bcd)
      /\ \A x \in DOMAIN bcd : x # "asked" => abcd[x] = bcd[x]
  BY DEF ++
<1>4. Change(abcd)
  BY DEF abcd, bcd, cd
<1> HIDE DEF abcd
<1>5. DOMAIN page' = LiveFields /\ \A x \in LiveFields : page'[x] = IF x # "name" /\ x \in DOMAIN abcd THEN abcd[x] ELSE page[x]
  BY <1>4 DEF Change
<1> QED
  BY <1>1, <1>2, <1>3, <1>5 DEF LiveFields

\* Nothing that a step does with the requests, the spinner or the hub changes what is shown.
LEMMA LiveFrame ==
  ASSUME LiveInv, DOMAIN page' = LiveFields,
         Same({"match", "stats", "connected", "groups", "leaving", "listener", "stored", "storedMatch", "swapped"})
  PROVE  LiveInv'
  BY DEF LiveInv, FollowsMatch, Same

LEMMA LiveStep ==
  ASSUME On("live"), LiveInv, LiveNext
  PROVE  LiveInv'
<1> DEFINE Rest == {"match", "stats", "connected", "groups", "leaving", "listener", "stored", "storedMatch", "swapped"}
<1>1. DOMAIN page = LiveFields
  BY DEF LiveInv
<1>2. CASE MatchChanges \/ StoredAges \/ Poll \/ HoverRefresh \/ \E k \in DOMAIN page.asked : LiveHandled(k)
  <2>1. DOMAIN page' = LiveFields /\ Same(Rest)
    BY <1>1, <1>2 DEF MatchChanges, StoredAges, Poll, HoverRefresh, LiveHandled, Click, Change, ++, Same, LiveFields
  <2> QED
    BY <2>1, LiveFrame
<1>3. CASE HubConnected
  <2>1. /\ DOMAIN page' = LiveFields /\ page'.connected = TRUE /\ page'.listener = page.match
        /\ Same(Rest \ {"connected", "listener", "groups"})
    BY <1>1, <1>3 DEF HubConnected, Change, Same, LiveFields
  <2> QED
    BY <2>1 DEF LiveInv, FollowsMatch, Same
<1>4. CASE HubLost
  <2>1. DOMAIN page' = LiveFields /\ page'.groups = {} /\ Same(Rest \ {"groups"})
    BY <1>1, <1>4 DEF HubLost, Change, Same, LiveFields
  <2> QED
    BY <2>1 DEF LiveInv, FollowsMatch, Same
<1>5. CASE TabShown
  <2>1. /\ DOMAIN page' = LiveFields /\ (~page.connected => page'.groups = page.groups)
        /\ page.match # None
        /\ \/ Same({"stats", "swapped"})
           \/ Valid(page.match) /\ page'.stats = page.stored /\ page'.swapped = FALSE
        /\ Same(Rest \ {"groups", "stats", "swapped"})
    BY <1>1, <1>5 DEF TabShown, Click, Change, ++, Same, LiveFields
  <2>2. CASE Same({"stats", "swapped"})
    BY <2>1, <2>2 DEF LiveInv, FollowsMatch, Same
  <2>3. CASE Valid(page.match) /\ page'.stats = page.stored /\ page'.swapped = FALSE
    BY <2>1, <2>3 DEF LiveInv, FollowsMatch, Same, Valid
  <2> QED
    BY <2>1, <2>2, <2>3
<1>6. ASSUME NEW m \in LiveMatches, StatisticsPushed(m) PROVE LiveInv'
  <2> DEFINE s == Statistics(m, page.pushed + 1)
  <2>1. CASE Hears(m)
    <3>1. /\ DOMAIN page' = LiveFields /\ page'.stats = s /\ page'.stored = s /\ page'.storedMatch = m
          /\ page'.swapped = (page.swapped /\ page.match # m)
          /\ m = page.listener /\ m \in page.groups \cup page.leaving
          /\ Same(Rest \ {"stats", "stored", "storedMatch", "swapped"})
      BY <1>1, <1>6, <2>1 DEF StatisticsPushed, Hears, Change, Same, LiveFields
    <3>2. s.match = m
      BY DEF Statistics
    <3> HIDE DEF s
    <3> QED
      BY <3>1, <3>2 DEF LiveInv, FollowsMatch, Same
  <2>2. CASE ~Hears(m)
    <3>1. DOMAIN page' = LiveFields /\ Same(Rest)
      BY <1>1, <1>6, <2>2 DEF StatisticsPushed, Change, Same, LiveFields
    <3> QED
      BY <3>1, LiveFrame
  <2> QED
    BY <2>1, <2>2
<1>7. ASSUME NEW k \in DOMAIN page.asked, LiveAnswered(k) PROVE LiveInv'
  <2> DEFINE r == page.asked[k]
             a == r.answer
  <2>1. Change([asked |-> RemoveAt(page.asked, k)] ++ IF r.by = "poll" THEN Polled(a) ELSE Hovered(a))
    BY <1>7 DEF LiveAnswered
  <2>2. ASSUME NEW m
        PROVE  DOMAIN Following(m) = {"match"} \/ DOMAIN Following(m) = {"match", "groups", "leaving", "listener"}
    BY DEF Following
  <2>3. page.swapped \in BOOLEAN /\ (page.stats # None => page.stats = page.stored)
    BY DEF LiveInv
  <2>4. CASE r.by = "poll" /\ a.ok /\ a.match # None
    <3>1. /\ DOMAIN page' = LiveFields /\ Same({"connected"})
          /\ page'.stats = (IF Valid(a.match) THEN page.stored ELSE None)
          /\ page'.stored = (IF Valid(a.match) THEN page.stored ELSE None)
          /\ page'.swapped = FALSE /\ page'.storedMatch = a.match
          /\ \A x \in {"match", "groups", "leaving", "listener"} :
               page'[x] = IF x \in DOMAIN Following(a.match) THEN Following(a.match)[x] ELSE page[x]
      <4>1. Change([asked |-> RemoveAt(page.asked, k)] ++ ([loading |-> FALSE] ++ Loaded(a.match)))
        BY <2>1, <2>4 DEF Polled
      <4> DEFINE kept == IF Valid(a.match) THEN [stats |-> page.stored] ELSE [stats |-> None, stored |-> None]
                 c == kept ++ [swapped |-> FALSE, storedMatch |-> a.match]
                 d == Following(a.match)
      <4>2. Change([asked |-> RemoveAt(page.asked, k)] ++ ([loading |-> FALSE] ++ (c ++ d)))
        BY <4>1 DEF Loaded
      <4>3. /\ DOMAIN c \subseteq {"stats", "stored", "swapped", "storedMatch"}
            /\ {"stats", "swapped", "storedMatch"} \subseteq DOMAIN c
            /\ c.swapped = FALSE /\ c.storedMatch = a.match
        BY DEF ++
      <4>4. /\ c.stats = IF Valid(a.match) THEN page.stored ELSE None
            /\ (IF "stored" \in DOMAIN c THEN c["stored"] ELSE page["stored"]) = IF Valid(a.match) THEN page.stored ELSE None
        BY DEF ++
      <4>5. DOMAIN d \subseteq {"match", "groups", "leaving", "listener"}
        BY <2>2
      <4> HIDE DEF c, d
      <4>6. DOMAIN [asked |-> RemoveAt(page.asked, k)] \subseteq {"asked"} /\ DOMAIN [loading |-> FALSE] \subseteq {"loading", "refreshing"}
        OBVIOUS
      <4>7. DOMAIN c \subseteq {"stats", "stored", "swapped", "storedMatch", "error"}
        BY <4>3
      <4>8. /\ DOMAIN page' = LiveFields /\ page'.connected = page.connected
            /\ \A x \in {"stats", "stored", "swapped", "storedMatch"} : page'[x] = IF x \in DOMAIN c THEN c[x] ELSE page[x]
            /\ \A x \in {"match", "groups", "leaving", "listener"} : page'[x] = IF x \in DOMAIN d THEN d[x] ELSE page[x]
        BY <1>1, <4>2, <4>5, <4>6, <4>7, Overlaid
      <4> QED
        BY <4>3, <4>4, <4>8 DEF Same, d
    <3>2. Valid(a.match) => page.stored.match = a.match
      BY DEF Valid
    <3> QED
      BY <3>1, <3>2, Followed
  <2>5. CASE r.by = "poll" /\ ~(a.ok /\ a.match # None)
    <3>1. /\ DOMAIN page' = LiveFields /\ Same({"connected"})
          /\ page'.stats = None /\ page'.stored = None /\ page'.swapped = FALSE /\ page'.storedMatch = None
          /\ \A x \in {"match", "groups", "leaving", "listener"} :
               page'[x] = IF x \in DOMAIN Following(None) THEN Following(None)[x] ELSE page[x]
      <4>1. Change([asked |-> RemoveAt(page.asked, k)] ++ ([loading |-> FALSE] ++ Unloaded(a.ok)))
        BY <2>1, <2>5 DEF Polled
      <4> DEFINE c == [stats |-> None, stored |-> None, storedMatch |-> None, swapped |-> FALSE, error |-> ~a.ok]
                 d == Following(None)
      <4>2. Change([asked |-> RemoveAt(page.asked, k)] ++ ([loading |-> FALSE] ++ (c ++ d)))
        BY <4>1 DEF Unloaded
      <4>3. /\ DOMAIN c = {"stats", "stored", "swapped", "storedMatch", "error"}
            /\ c.stats = None /\ c.stored = None /\ c.swapped = FALSE /\ c.storedMatch = None
        OBVIOUS
      <4>5. DOMAIN d \subseteq {"match", "groups", "leaving", "listener"}
        BY <2>2
      <4> HIDE DEF c, d
      <4>6. DOMAIN [asked |-> RemoveAt(page.asked, k)] \subseteq {"asked"} /\ DOMAIN [loading |-> FALSE] \subseteq {"loading", "refreshing"}
        OBVIOUS
      <4>8. /\ DOMAIN page' = LiveFields /\ page'.connected = page.connected
            /\ \A x \in {"stats", "stored", "swapped", "storedMatch"} : page'[x] = IF x \in DOMAIN c THEN c[x] ELSE page[x]
            /\ \A x \in {"match", "groups", "leaving", "listener"} : page'[x] = IF x \in DOMAIN d THEN d[x] ELSE page[x]
        BY <1>1, <4>2, <4>3, <4>5, <4>6, Overlaid
      <4> QED
        BY <4>3, <4>8 DEF Same, d
    <3> QED
      BY <3>1, Followed
  <2>6. CASE r.by # "poll" /\ a.ok /\ a.match # None
    <3> DEFINE swapped == page.swapped \/ a.match # page.match
    <3>1. /\ DOMAIN page' = LiveFields /\ Same({"connected", "stats", "stored"})
          /\ page'.swapped = swapped /\ page'.storedMatch = a.match
          /\ \A x \in {"match", "groups", "leaving", "listener"} :
               page'[x] = IF x \in DOMAIN Following(a.match) THEN Following(a.match)[x] ELSE page[x]
      <4>1. Change([asked |-> RemoveAt(page.asked, k)]
                   ++ ([refreshing |-> FALSE] ++ ([storedMatch |-> a.match, swapped |-> swapped] ++ Following(a.match))))
        BY <2>1, <2>6 DEF Hovered
      <4> DEFINE c == [storedMatch |-> a.match, swapped |-> swapped]
                 d == Following(a.match)
      <4>2. Change([asked |-> RemoveAt(page.asked, k)] ++ ([refreshing |-> FALSE] ++ (c ++ d)))
        BY <4>1
      <4>3. /\ DOMAIN c = {"swapped", "storedMatch"}
            /\ c.swapped = swapped /\ c.storedMatch = a.match
        OBVIOUS
      <4>5. DOMAIN d \subseteq {"match", "groups", "leaving", "listener"}
        BY <2>2
      <4> HIDE DEF c, d, swapped
      <4>6. DOMAIN [asked |-> RemoveAt(page.asked, k)] \subseteq {"asked"} /\ DOMAIN [refreshing |-> FALSE] \subseteq {"loading", "refreshing"}
        OBVIOUS
      <4>7. DOMAIN c \subseteq {"stats", "stored", "swapped", "storedMatch", "error"}
        BY <4>3
      <4>8. /\ DOMAIN page' = LiveFields /\ page'.connected = page.connected
            /\ \A x \in {"stats", "stored", "swapped", "storedMatch"} : page'[x] = IF x \in DOMAIN c THEN c[x] ELSE page[x]
            /\ \A x \in {"match", "groups", "leaving", "listener"} : page'[x] = IF x \in DOMAIN d THEN d[x] ELSE page[x]
        BY <1>1, <4>2, <4>5, <4>6, <4>7, Overlaid
      <4> QED
        BY <4>3, <4>8 DEF Same, d
    <3>2. page.stats # None /\ ~swapped => page.stats.match = a.match
      BY <2>6 DEF LiveInv, FollowsMatch
    <3>3. page'.stats = page.stats /\ page'.stored = page.stored /\ swapped \in BOOLEAN /\ Same({"connected"})
      BY <2>3, <3>1 DEF Same
    <3> HIDE DEF swapped
    <3> QED
      BY <2>3, <3>1, <3>2, <3>3, Followed
  <2>7. CASE r.by # "poll" /\ ~(a.ok /\ a.match # None)
    <3>1. DOMAIN page' = LiveFields /\ Same(Rest)
      <4>1. Change([asked |-> RemoveAt(page.asked, k)] ++ ([refreshing |-> FALSE] ++ <<>>))
        BY <2>1, <2>7 DEF Hovered
      <4>2. DOMAIN <<>> = {}
        OBVIOUS
      <4> QED
        BY <1>1, <4>1, <4>2 DEF Change, ++, Same, LiveFields
    <3> QED
      BY <3>1, LiveFrame
  <2> QED
    BY <2>4, <2>5, <2>6, <2>7
<1> QED
  BY <1>2, <1>3, <1>4, <1>5, <1>6, <1>7 DEF LiveNext

-----------------------------------------------------------------------------
(* The search page *)

SearchFields == {"name", "clicks", "query", "results", "pages", "loading", "error", "address", "goes", "panel",
                 "filters", "text", "typing", "suggested", "asking", "recent", "stored", "known", "boxRecent",
                 "asked"}
SearchAsks == [at : {"results", "analytics"}, query : Queries, page : Nat, filtered : BOOLEAN,
               found : ResultSet \cup {None}]
Distinct(s) == \A i, j \in DOMAIN s : s[i] = s[j] => i = j
SearchTyped ==
  /\ DOMAIN page = SearchFields
  /\ page.query \in Queries \cup {None} /\ page.goes \in Queries \cup {None}
  /\ page.panel \in BOOLEAN
  /\ page.asked \in Seq(SearchAsks)
  /\ page.recent \in Seq(Queries) /\ Distinct(page.recent)
  /\ page.stored \in Seq(Queries) /\ Distinct(page.stored)
  /\ page.known \in Seq(Queries) /\ Distinct(page.known)
\* A request that waits for analytics has the results of its own query.
AskedOK ==
  \A k \in DOMAIN page.asked :
    page.asked[k].at = "analytics" => page.asked[k].found # None /\ page.asked[k].found.query = page.asked[k].query
ShownOK ==
  ~page.loading /\ ~page.error /\ page.query # None => page.results # None /\ page.results.query = page.query

SearchInv == SearchTyped /\ AskedOK /\ ShownOK

LEMMA SearchInvMeans == SearchInv /\ On("search") => SearchShowsItsQuery
<1> SUFFICES ASSUME SearchInv PROVE SearchShowsItsQuery
  OBVIOUS
<1>1. SearchPanel \in {"results", "nothing found"} => ~page.loading /\ ~page.error /\ page.query # None
  BY DEF SearchPanel
<1> QED
  BY <1>1 DEF SearchInv, SearchTyped, ShownOK, Distinct, SearchShowsItsQuery

\* The history holds a query once.
LEMMA SavedOnce ==
  ASSUME NEW q \in Queries, NEW recent \in Seq(Queries), Distinct(recent)
  PROVE  Saved(q, recent) \in Seq(Queries) /\ Distinct(Saved(q, recent))
<1> DEFINE kept == Keep(recent, ToSet(recent) \ {q})
           all == <<q>> \o kept
           n == Min({MaxRecent, Len(all)})
<1>1. kept \in Seq(Queries) /\ (\A i \in DOMAIN kept : kept[i] # q) /\ Distinct(kept)
  <2>1. \A i, j \in DOMAIN recent : recent[i] = recent[j] => i = j
    BY DEF Distinct
  <2> QED
    BY <2>1, KeepIn DEF Distinct
<1>2. Saved(q, recent) = SubSeq(all, 1, n)
  BY DEF Saved
<1> HIDE DEF kept
<1>3. /\ all \in Seq(Queries) /\ Len(all) = Len(kept) + 1 /\ all[1] = q
      /\ \A i \in 2 .. Len(all) : all[i] = kept[i - 1] /\ i - 1 \in DOMAIN kept
  BY <1>1
<1> HIDE DEF all
<1>4. n \in Nat /\ n <= Len(all)
  <2>1. MaxRecent \in Nat /\ Len(all) \in Nat
    BY <1>3, SearchAssumption
  <2>2. \E x \in {MaxRecent, Len(all)} : \A y \in {MaxRecent, Len(all)} : x <= y
    BY <2>1
  <2>3. n \in {MaxRecent, Len(all)} /\ \A y \in {MaxRecent, Len(all)} : n <= y
    BY <2>2 DEF Min
  <2> QED
    BY <2>1, <2>3
<1> HIDE DEF n
<1>5. ASSUME NEW i \in 1 .. Len(all), NEW j \in 1 .. Len(all), all[i] = all[j] PROVE i = j
  <2>1. \A m \in 1 .. Len(all) : m = 1 \/ m \in 2 .. Len(all)
    OBVIOUS
  <2>2. \A m \in 2 .. Len(all) : all[m] # q
    BY <1>1, <1>3
  <2>3. CASE i \in 2 .. Len(all) /\ j \in 2 .. Len(all)
    <3>1. i - 1 \in DOMAIN kept /\ j - 1 \in DOMAIN kept /\ kept[i - 1] = kept[j - 1]
      BY <1>3, <1>5, <2>3
    <3>2. i - 1 = j - 1
      BY <1>1, <3>1 DEF Distinct
    <3> QED
      BY <2>3, <3>2
  <2> QED
    BY <1>3, <1>5, <2>1, <2>2, <2>3
<1>6. /\ SubSeq(all, 1, n) \in Seq(Queries) /\ DOMAIN SubSeq(all, 1, n) = 1 .. n
      /\ \A i \in 1 .. n : SubSeq(all, 1, n)[i] = all[i] /\ i \in 1 .. Len(all)
  BY <1>3, <1>4
<1> QED
  BY <1>2, <1>5, <1>6 DEF Distinct

LEMMA SearchInitInv == SearchInit => SearchInv
<1> SUFFICES ASSUME SearchInit PROVE SearchInv
  OBVIOUS
<1>0. PICK q \in Queries \cup {None}, history \in Histories :
        LET kept == IF q = None THEN history ELSE Saved(q, <<>>) IN
        /\ DOMAIN page = SearchFields
        /\ page.query = q /\ page.goes = None /\ page.panel = FALSE /\ page.loading = (q # None)
        /\ page.recent = kept /\ page.stored = kept /\ page.known = <<>>
        /\ page.asked = IF q = None THEN <<>> ELSE <<SearchAsk(q, 1, FALSE)>>
  <2>1. PICK q \in Queries \cup {None}, history \in Histories :
    LET kept == IF q = None THEN history ELSE Saved(q, <<>>) IN
    page = [name |-> "search", clicks |-> 0,
            query |-> q, results |-> None, pages |-> 0, loading |-> q # None, error |-> FALSE,
            address |-> q, goes |-> None,
            panel |-> FALSE, filters |-> FALSE,
            text |-> q, typing |-> FALSE, suggested |-> None, asking |-> {},
            recent |-> kept, stored |-> kept, known |-> <<>>, boxRecent |-> history,
            asked |-> IF q = None THEN <<>> ELSE <<SearchAsk(q, 1, FALSE)>>]
    BY Zenon DEF SearchInit
  <2> DEFINE kept == IF q = None THEN history ELSE Saved(q, <<>>)
             asks == IF q = None THEN <<>> ELSE <<SearchAsk(q, 1, FALSE)>>
  <2>2. page = [name |-> "search", clicks |-> 0,
            query |-> q, results |-> None, pages |-> 0, loading |-> q # None, error |-> FALSE,
            address |-> q, goes |-> None,
            panel |-> FALSE, filters |-> FALSE,
            text |-> q, typing |-> FALSE, suggested |-> None, asking |-> {},
            recent |-> kept, stored |-> kept, known |-> <<>>, boxRecent |-> history, asked |-> asks]
    BY <2>1
  <2> HIDE DEF kept, asks
  <2>3. /\ page.query = q /\ page.goes = None /\ page.panel = FALSE /\ page.loading = (q # None)
        /\ page.recent = kept /\ page.stored = kept /\ page.known = <<>> /\ page.asked = asks
    BY <2>2
  <2>4. DOMAIN page = SearchFields
    BY <2>2 DEF SearchFields
  <2> QED
    BY <2>3, <2>4 DEF kept, asks
<1> DEFINE r == SearchAsk(q, 1, FALSE)
<1>1. q # None => r \in SearchAsks /\ r.at = "results"
  BY DEF SearchAsk, SearchAsks
<1> HIDE DEF r
<1>2. page.asked \in Seq(SearchAsks) /\ \A k \in DOMAIN page.asked : page.asked[k].at = "results"
  <2>1. page.asked = IF q = None THEN <<>> ELSE <<r>>
    BY <1>0 DEF r
  <2>2. CASE q = None
    BY <2>1, <2>2
  <2>3. CASE q # None
    BY <1>1, <2>1, <2>3
  <2> QED
    BY <2>2, <2>3
<1>3. /\ page.recent \in Seq(Queries) /\ Distinct(page.recent)
      /\ page.stored = page.recent
      /\ page.known \in Seq(Queries) /\ Distinct(page.known)
  <2>1. <<>> \in Seq(Queries) /\ Distinct(<<>>)
    BY DEF Distinct
  <2>2. CASE q = None
    <3>1. history \in Seq(Queries) /\ Distinct(history)
      BY SearchAssumption DEF IsInjective, Distinct
    <3> QED
      BY <1>0, <2>1, <2>2, <3>1
  <2>3. CASE q # None
    <3>1. Saved(q, <<>>) \in Seq(Queries) /\ Distinct(Saved(q, <<>>))
      BY <2>1, <2>3, SavedOnce
    <3> QED
      BY <1>0, <2>1, <2>3, <3>1
  <2> QED
    BY <2>2, <2>3
<1> QED
  BY <1>0, <1>2, <1>3 DEF SearchInv, SearchTyped, AskedOK, ShownOK

\* A search is begun.
LEMMA Performed ==
  ASSUME SearchInv, NEW q \in Queries, NEW p \in Nat, NEW filtered \in BOOLEAN,
         DOMAIN page' = SearchFields,
         \A x \in DOMAIN Perform(q, p, filtered) : page'[x] = Perform(q, p, filtered)[x],
         page'.known \in {page.known, Saved(q, page.known)},
         page'.query \in Queries \cup {None}, page'.goes \in Queries \cup {None}, page'.panel \in BOOLEAN
  PROVE  SearchInv'
<1> DEFINE r == SearchAsk(q, p, filtered)
<1>1. /\ page'.loading = TRUE /\ page'.recent = Saved(q, page.known) /\ page'.stored = Saved(q, page.known)
      /\ page'.asked = Append(page.asked, r)
  BY DEF Perform
<1>2. r \in SearchAsks /\ r.at = "results"
  BY DEF SearchAsk, SearchAsks
<1>3. page.asked \in Seq(SearchAsks)
  BY DEF SearchInv, SearchTyped
<1> HIDE DEF r
<1>4. /\ page'.asked \in Seq(SearchAsks)
      /\ \A k \in DOMAIN page'.asked : page'.asked[k] = r \/ (k \in DOMAIN page.asked /\ page'.asked[k] = page.asked[k])
  BY <1>1, <1>2, <1>3
<1>5. AskedOK'
  BY <1>2, <1>4 DEF SearchInv, AskedOK
<1>6. /\ page'.recent \in Seq(Queries) /\ Distinct(page'.recent)
      /\ page'.stored \in Seq(Queries) /\ Distinct(page'.stored)
      /\ page'.known \in Seq(Queries) /\ Distinct(page'.known)
  BY <1>1, SavedOnce DEF SearchInv, SearchTyped
<1> QED
  BY <1>1, <1>4, <1>5, <1>6 DEF SearchInv, SearchTyped, ShownOK, Distinct

\* Neither the requests nor what is shown change.
LEMMA SearchFrame ==
  ASSUME SearchInv, DOMAIN page' = SearchFields,
         Same({"query", "results", "loading", "error", "asked", "recent", "stored"}),
         page'.known \in {page.known, page.recent},
         page'.goes \in {page.goes, None}, page'.panel \in BOOLEAN
  PROVE  SearchInv'
  BY DEF SearchInv, SearchTyped, AskedOK, ShownOK, Distinct, Same

LEMMA SearchStep ==
  ASSUME On("search"), SearchInv, SearchNext
  PROVE  SearchInv'
<1>1. DOMAIN page = SearchFields /\ page.panel \in BOOLEAN /\ page.goes \in Queries \cup {None}
      /\ page.query \in Queries \cup {None} /\ page.asked \in Seq(SearchAsks)
  BY DEF SearchInv, SearchTyped
<1> DEFINE Rest == SearchFields \ {"clicks", "text", "typing", "suggested", "asking", "panel", "filters", "known"}
<1>2. CASE \/ Suggest \/ ToggleFilters \/ ChangeFilters \/ ChangeSort
           \/ \E q \in Queries : Type(q) \/ Suggested(q)
  <2>1. /\ DOMAIN page' = SearchFields /\ Same(Rest) /\ page'.panel \in {page.panel, ~page.panel}
        /\ page'.known \in {page.known, page.recent}
    <3>1. CASE Suggest \/ ToggleFilters
      BY <1>1, <3>1 DEF Suggest, ToggleFilters, Click, Change, ++, Same, SearchFields
    <3>2. CASE ChangeFilters \/ ChangeSort
      BY <1>1, <3>2 DEF ChangeFilters, ChangeSort, Click, Change, ++, Same, SearchFields
    <3>3. ASSUME NEW q \in Queries, Type(q) \/ Suggested(q)
          PROVE  DOMAIN page' = SearchFields /\ Same(Rest) /\ page'.panel = page.panel /\ page'.known = page.known
      BY <1>1, <3>3 DEF Type, Suggested, Click, Change, ++, Same, SearchFields
    <3> HIDE DEF Rest
    <3> QED
      BY <1>2, <3>1, <3>2, <3>3
  <2>2. /\ Same({"query", "results", "loading", "error", "asked", "recent", "stored"}) /\ page'.goes = page.goes
        /\ page'.panel \in BOOLEAN
    BY <1>1, <2>1 DEF Same, SearchFields
  <2> QED
    BY <2>1, <2>2, SearchFrame
<1>3. CASE ClearRecent \/ ClearBoxRecent
  <2>1. /\ DOMAIN page' = SearchFields /\ page'.recent \in {<<>>, page.recent} /\ page'.stored = <<>>
        /\ Same(SearchFields \ {"recent", "stored", "boxRecent", "clicks"})
    BY <1>1, <1>3 DEF ClearRecent, ClearBoxRecent, Click, Change, ++, Same, SearchFields
  <2>2. SearchTyped'
    <3>1. <<>> \in Seq(Queries) /\ Distinct(<<>>)
      BY DEF Distinct
    <3>2. page'.recent \in Seq(Queries) /\ Distinct(page'.recent)
          /\ page'.stored \in Seq(Queries) /\ Distinct(page'.stored)
      BY <2>1, <3>1 DEF SearchInv, SearchTyped
    <3>3. Same({"query", "goes", "panel", "asked", "known"})
      BY <2>1 DEF Same, SearchFields
    <3>4. page'.known = page.known
      BY <3>3 DEF Same
    <3> QED
      BY <2>1, <3>2, <3>3, <3>4 DEF SearchInv, SearchTyped, Same, Distinct
  <2> QED
    BY <2>1, <2>2 DEF SearchInv, AskedOK, ShownOK, Same, SearchFields
<1> DEFINE Performs(q, p, filtered) ==
             /\ DOMAIN page' = SearchFields
             /\ \A x \in {"loading", "error", "recent", "stored", "asked"} : page'[x] = Perform(q, p, filtered)[x]
             /\ page'.known \in {page.known, Saved(q, page.known)}
             /\ page'.panel = page.panel
<1>4. ASSUME NEW q \in Queries, NEW p \in Nat, NEW filtered \in BOOLEAN, Performs(q, p, filtered),
             page'.query \in Queries \cup {None}, page'.goes \in Queries \cup {None}
      PROVE  SearchInv'
  <2>1. DOMAIN Perform(q, p, filtered) = {"loading", "error", "recent", "stored", "asked"}
    BY DEF Perform
  <2>2. DOMAIN page' = SearchFields /\ page'.panel \in BOOLEAN
        /\ \A x \in DOMAIN Perform(q, p, filtered) : page'[x] = Perform(q, p, filtered)[x]
    BY <1>1, <1>4, <2>1
  <2> QED
    BY <1>4, <2>2, Performed
<1>5. ASSUME NEW q \in Queries, Search(q) \/ SearchRecent(q) PROVE SearchInv'
  <2>0. PICK box : Click(HandleSearch(q, box))
    BY <1>5 DEF Search, SearchRecent
  <2>1. Performs(q, 1, page.panel) /\ page'.query = q /\ page'.goes = page.goes
    BY <1>1, <2>0 DEF HandleSearch, PerformAnew, Perform, Click, Change, ++, SearchFields
  <2> HIDE DEF Performs
  <2> QED
    BY <1>1, <1>4, <2>1
<1>6. CASE ApplyFilters \/ ResetFilters \/ TryAgain
  <2>1. page.query # None
    BY <1>6 DEF ApplyFilters, ResetFilters, TryAgain
  <2>2. page'.query = page.query /\ page'.goes = page.goes /\ \E filtered \in BOOLEAN : Performs(page.query, 1, filtered)
    <3>1. CASE ApplyFilters
      BY <1>1, <3>1 DEF ApplyFilters, Perform, Click, Change, ++, SearchFields
    <3>2. CASE ResetFilters
      BY <1>1, <3>2 DEF ResetFilters, PerformAnew, Perform, Click, Change, ++, SearchFields
    <3>3. CASE TryAgain
      BY <1>1, <3>3 DEF TryAgain, Perform, Click, Change, ++, SearchFields
    <3> QED
      BY <1>6, <3>1, <3>2, <3>3
  <2> HIDE DEF Performs
  <2> QED
    BY <1>1, <1>4, <2>1, <2>2
<1>7. ASSUME NEW p \in 1 .. TotalPages, ChangePage(p) PROVE SearchInv'
  <2>1. page.query # None /\ Performs(page.query, p, page.panel) /\ page'.query = page.query /\ page'.goes = page.goes
    BY <1>1, <1>7 DEF ChangePage, Perform, Click, Change, ++, SearchFields
  <2>2. p \in Nat
    BY SearchAssumption
  <2> HIDE DEF Performs
  <2> QED
    BY <1>1, <1>4, <2>1, <2>2
<1>8. CASE AddressChanged
  <2>1. CASE page.goes # page.address /\ page.goes # page.query
    <3>1. /\ page.goes # None /\ Performs(page.goes, 1, FALSE) /\ page'.query = page.goes /\ page'.goes = None
      BY <1>1, <1>8, <2>1 DEF AddressChanged, PerformAnew, Perform, Change, ++, SearchFields
    <3> HIDE DEF Performs
    <3> QED
      BY <1>1, <1>4, <3>1
  <2>2. CASE ~(page.goes # page.address /\ page.goes # page.query)
    <3>1. DOMAIN page' = SearchFields /\ page'.goes = None /\ Same(SearchFields \ {"goes", "address"})
      BY <1>1, <1>8, <2>2 DEF AddressChanged, Change, Same, SearchFields
    <3>2. /\ Same({"query", "results", "loading", "error", "asked", "recent", "stored"})
          /\ page'.panel \in BOOLEAN /\ page'.known = page.known
      BY <1>1, <3>1 DEF Same, SearchFields
    <3> QED
      BY <3>1, <3>2, SearchFrame
  <2> QED
    BY <2>1, <2>2
<1>9. ASSUME NEW k \in DOMAIN page.asked, SearchFound(k) PROVE SearchInv'
  <2> DEFINE r == page.asked[k]
  <2>1. PICK found \in Finds(r) :
          Change([asked |-> [page.asked EXCEPT ![k] = [r EXCEPT !.at = "analytics", !.found = found]]])
    BY <1>9 DEF SearchFound
  <2> DEFINE q == [r EXCEPT !.at = "analytics", !.found = found]
  <2>2. r \in SearchAsks
    BY <1>1
  <2>3. found \in ResultSet /\ found.query = r.query
    <3>1. \A s \in SearchAsks : s.query \in Queries /\ s.page \in Nat /\ s.filtered \in BOOLEAN
      BY DEF SearchAsks
    <3>2. r.query \in Queries /\ r.page \in Nat /\ r.filtered \in BOOLEAN
      BY <2>2, <3>1
    <3> HIDE DEF r
    <3>3. PICK some \in BOOLEAN : found = Results(r.query, r.page, r.filtered, some)
      BY DEF Finds
    <3> QED
      BY <3>2, <3>3 DEF Results, ResultSet
  <2>4. \A s \in SearchAsks, f \in ResultSet : LET t == [s EXCEPT !.at = "analytics", !.found = f] IN
          t \in SearchAsks /\ t.query = s.query /\ t.found = f
    BY DEF SearchAsks
  <2>5. q \in SearchAsks /\ q.query = r.query /\ q.found = found
    BY <2>2, <2>3, <2>4
  <2>6. page'.asked = [page.asked EXCEPT ![k] = q] /\ DOMAIN page' = SearchFields /\ Same(SearchFields \ {"asked"})
    BY <1>1, <2>1 DEF Change, Same, SearchFields
  <2> HIDE DEF q
  <2>7. /\ page'.asked \in Seq(SearchAsks) /\ DOMAIN page'.asked = DOMAIN page.asked
        /\ \A j \in DOMAIN page.asked : page'.asked[j] = IF j = k THEN q ELSE page.asked[j]
    BY <1>1, <2>5, <2>6
  <2>8. AskedOK'
    BY <2>3, <2>5, <2>7, SearchAssumption DEF SearchInv, AskedOK
  <2> QED
    BY <2>6, <2>7, <2>8 DEF SearchInv, SearchTyped, ShownOK, Same, SearchFields
<1>10. ASSUME NEW k \in DOMAIN page.asked, SearchFailed(k) \/ SearchAnswered(k) PROVE SearchInv'
  <2> DEFINE r == page.asked[k]
             left == RemoveAt(page.asked, k)
  <2>1. r \in SearchAsks
    BY <1>1
  <2>2. left \in Seq(SearchAsks) /\ \A i \in DOMAIN left : \E j \in DOMAIN page.asked : left[i] = page.asked[j]
    <3>1. /\ left \in Seq(SearchAsks) /\ Len(left) = Len(page.asked) - 1
          /\ \A i \in DOMAIN left : left[i] = IF i < k THEN page.asked[i] ELSE page.asked[i + 1]
      BY <1>1, RemovedAt
    <3> HIDE DEF left
    <3> QED
      BY <1>1, <3>1
  <2> HIDE DEF left
  <2>3. CASE SearchFailed(k)
    <3>1. /\ DOMAIN page' = SearchFields /\ page'.asked = left /\ page'.error = TRUE
          /\ Same(SearchFields \ {"asked", "error", "loading"})
      BY <1>1, <2>3 DEF SearchFailed, Change, Same, SearchFields, left
    <3>2. AskedOK'
      BY <2>2, <3>1 DEF SearchInv, AskedOK
    <3> QED
      BY <2>2, <3>1, <3>2 DEF SearchInv, SearchTyped, ShownOK, Same, SearchFields
  <2>4. CASE SearchAnswered(k)
    <3>1. /\ DOMAIN page' = SearchFields /\ page'.asked = left /\ page'.query = r.query /\ page'.goes = r.query
          /\ page'.results = r.found /\ r.at = "analytics"
          /\ Same({"panel", "recent", "stored", "known"})
      BY <1>1, <2>4 DEF SearchAnswered, SearchAnswer, Change, ++, Same, SearchFields, left
    <3>2. AskedOK'
      BY <2>2, <3>1 DEF SearchInv, AskedOK
    <3>3. r.query \in Queries /\ r.found # None /\ r.found.query = r.query
      BY <2>1, <3>1 DEF SearchInv, AskedOK, SearchAsks
    <3> QED
      BY <2>2, <3>1, <3>2, <3>3 DEF SearchInv, SearchTyped, ShownOK, Same
  <2> QED
    BY <1>10, <2>3, <2>4
<1> QED
  BY <1>2, <1>3, <1>5, <1>6, <1>7, <1>8, <1>9, <1>10 DEF SearchNext

-----------------------------------------------------------------------------
(* The settings page *)

SettingsFields == {"name", "clicks", "tab", "changed", "theme", "stored", "pref", "language", "locale", "updates",
                   "reloads", "elsewhere", "settings", "aliases", "defaults"}
SettingsTyped ==
  /\ DOMAIN page = SettingsFields
  /\ page.settings \in SavedSettings /\ page.stored \in SavedSettings \cup {None} /\ page.defaults \in SavedSettings
  /\ page.pref \in Values \cup {"on", "off", None}
  /\ page.updates \in Nat
SettingsInv == SettingsTyped /\ SettingsShownAreSaved

LEMMA HasNotifications == "notifications" \in Sections
<1>1. "notifications" \in DOMAIN Tabs /\ Tabs["notifications"] = {"notifications"}
  BY DEF Tabs, NotificationsTab
<1> QED
  BY <1>1 DEF Sections

LEMMA DefaultsStored == Defaults \in SavedSettings
  BY SettingsAssumption DEF Defaults, SavedSettings

LEMMA LoadedTyped ==
  ASSUME NEW stored \in SavedSettings \cup {None}, NEW pref \in Values \cup {"on", "off", None}
  PROVE  LET r == LoadedSettings(stored, pref) IN
           /\ DOMAIN r = {"settings", "aliases", "defaults"}
           /\ r.settings \in SavedSettings /\ r.defaults = Defaults
<1> DEFINE base == IF stored = None THEN Defaults ELSE stored
           v == Preference(pref)
<1>1. base \in SavedSettings
  BY DefaultsStored
<1>2. v \in Values \cup {"on", "off"}
  BY DEF Preference
<1> HIDE DEF base, v
<1>3. [base EXCEPT !["notifications"] = v] \in SavedSettings
  BY <1>1, <1>2 DEF SavedSettings
<1> QED
  BY <1>3 DEF LoadedSettings, base, v

\* What is saved is what a reload shows.
LEMMA SavedLoads ==
  ASSUME NEW settings \in SavedSettings
  PROVE  LoadedSettings(settings, settings["notifications"]).settings = settings
<1>1. settings["notifications"] \in Values \cup {"on", "off"}
  BY HasNotifications DEF SavedSettings
<1>2. Preference(settings["notifications"]) = settings["notifications"] /\ settings # None
  BY <1>1, SettingsAssumption DEF Preference
<1>3. [settings EXCEPT !["notifications"] = settings["notifications"]] = settings
  BY HasNotifications DEF SavedSettings
<1> QED
  BY <1>2, <1>3 DEF LoadedSettings

LEMMA SettingsInitInv == SettingsInit => SettingsInv
<1> SUFFICES ASSUME SettingsInit PROVE SettingsInv
  OBVIOUS
<1>1. PICK stored \in {None, [s \in Sections |-> "on"]} :
        page = LoadedSettings(stored, None)
           ++ [name |-> "settings", clicks |-> 0, tab |-> "general", changed |-> FALSE, theme |-> "system",
               stored |-> stored, pref |-> None, language |-> "en", locale |-> Locale(stored, "en"),
               updates |-> 0, reloads |-> FALSE, elsewhere |-> FALSE]
  BY Zenon DEF SettingsInit
<1>2. stored \in SavedSettings \cup {None}
  BY DEF SavedSettings
<1> DEFINE l == LoadedSettings(stored, None)  o == Locale(stored, "en")
<1>3. DOMAIN l = {"settings", "aliases", "defaults"} /\ l.settings \in SavedSettings /\ l.defaults = Defaults
  BY <1>2, LoadedTyped
<1> HIDE DEF l, o
<1>4. page = l ++ [name |-> "settings", clicks |-> 0, tab |-> "general", changed |-> FALSE, theme |-> "system",
               stored |-> stored, pref |-> None, language |-> "en", locale |-> o,
               updates |-> 0, reloads |-> FALSE, elsewhere |-> FALSE]
  BY <1>1 DEF l, o
<1>5. /\ DOMAIN page = SettingsFields /\ page.settings = l.settings /\ page.defaults = l.defaults
      /\ page.aliases = l.aliases
  BY <1>3, <1>4 DEF ++, SettingsFields
<1>6. page.stored = stored /\ page.pref = None /\ page.locale = o /\ page.updates = 0 /\ page.language = "en"
  BY <1>3, <1>4 DEF ++
<1>7. SettingsTyped
  BY <1>2, <1>3, <1>5, <1>6, DefaultsStored DEF SettingsTyped
<1>8. \A s \in Sections : page.defaults[s] = "default"
  BY <1>3, <1>5 DEF Defaults
<1> QED
  BY <1>5, <1>6, <1>7, <1>8 DEF SettingsInv, SettingsShownAreSaved, l, o

\* The page is reloaded.
LEMMA Reloaded ==
  ASSUME On("settings"), SettingsInv, NEW more, "settings" \notin DOMAIN more, "aliases" \notin DOMAIN more,
         "defaults" \notin DOMAIN more, "locale" \notin DOMAIN more, "updates" \notin DOMAIN more,
         "stored" \notin DOMAIN more, "pref" \notin DOMAIN more, "language" \notin DOMAIN more,
         "name" \notin DOMAIN more,
         Change(Reloads ++ more)
  PROVE  SettingsInv'
<1> DEFINE l == LoadedSettings(page.stored, page.pref)  o == Locale(page.stored, page.language)
           r == l ++ [tab |-> "general", changed |-> FALSE, locale |-> o, updates |-> 0,
                      reloads |-> FALSE, elsewhere |-> FALSE]
<1>1. DOMAIN l = {"settings", "aliases", "defaults"} /\ l.settings \in SavedSettings /\ l.defaults = Defaults
  BY LoadedTyped DEF SettingsInv, SettingsTyped
<1>2. Reloads = r
  BY DEF Reloads
<1> HIDE DEF l, o
<1>3. /\ r.settings = l.settings /\ r.aliases = l.aliases /\ r.defaults = l.defaults /\ r.locale = o /\ r.updates = 0
      /\ DOMAIN r = {"settings", "aliases", "defaults", "tab", "changed", "locale", "updates", "reloads", "elsewhere"}
  BY <1>1 DEF ++
<1> HIDE DEF r
<1>4. Change(r ++ more) /\ DOMAIN page = SettingsFields
  BY <1>2 DEF SettingsInv, SettingsTyped
<1>5. /\ DOMAIN page' = SettingsFields
      /\ page'.settings = l.settings /\ page'.aliases = l.aliases /\ page'.defaults = l.defaults
      /\ page'.locale = o /\ page'.updates = 0
      /\ page'.stored = page.stored /\ page'.pref = page.pref /\ page'.language = page.language
  BY <1>3, <1>4 DEF Change, ++, SettingsFields
<1>6. SettingsTyped'
  BY <1>1, <1>5, DefaultsStored DEF SettingsTyped, SettingsInv
<1>7. \A s \in Sections : page'.defaults[s] = "default"
  BY <1>1, <1>5 DEF Defaults
<1>8. /\ page'.settings = LoadedSettings(page'.stored, page'.pref).settings
      /\ page'.locale = Locale(page'.stored, page'.language)
  BY <1>5 DEF l, o
<1> QED
  BY <1>6, <1>7, <1>8 DEF SettingsInv, SettingsShownAreSaved

LEMMA SettingsStep ==
  ASSUME On("settings"), SettingsInv, SettingsNext
  PROVE  SettingsInv'
<1>1. /\ DOMAIN page = SettingsFields
      /\ page.settings \in SavedSettings /\ page.stored \in SavedSettings \cup {None} /\ page.defaults \in SavedSettings
      /\ page.pref \in Values \cup {"on", "off", None}
      /\ page.updates \in Nat
      /\ ~page.changed /\ ~page.elsewhere => page.settings = LoadedSettings(page.stored, page.pref).settings
      /\ page.updates = 0 => page.locale = Locale(page.stored, page.language)
      /\ \A s \in Sections \ page.aliases : page.defaults[s] = "default"
  BY DEF SettingsInv, SettingsTyped, SettingsShownAreSaved
<1>2. CASE (\E t \in DOMAIN Tabs : ChooseTab(t)) \/ \E t \in {"light", "dark", "system"} : SetTheme(t)
  <2>1. DOMAIN page' = SettingsFields /\ Same(SettingsFields \ {"tab", "theme", "clicks"})
    BY <1>1, <1>2 DEF ChooseTab, SetTheme, Click, Change, ++, Same, SettingsFields
  <2> QED
    BY <1>1, <2>1 DEF SettingsInv, SettingsTyped, SettingsShownAreSaved, Same, SettingsFields
<1>3. ASSUME NEW s \in Sections, NEW v \in Values, UpdateSetting(s, v) PROVE SettingsInv'
  <2> DEFINE set == [page.settings EXCEPT ![s] = v]
             def == IF s \in page.aliases THEN [page.defaults EXCEPT ![s] = v] ELSE page.defaults
  <2>1. set \in SavedSettings /\ def \in SavedSettings
    BY <1>1 DEF SavedSettings
  <2>2. \A x \in Sections \ page.aliases : def[x] = "default"
    BY <1>1 DEF SavedSettings
  <2>3. Click([settings |-> set, changed |-> TRUE, defaults |-> def])
    BY <1>3 DEF UpdateSetting
  <2> HIDE DEF set, def
  <2>4. DOMAIN page' = SettingsFields /\ page'.settings = set /\ page'.changed = TRUE /\ page'.defaults = def
        /\ Same(SettingsFields \ {"settings", "changed", "defaults", "clicks"})
    BY <1>1, <2>3 DEF Click, Change, ++, Same, SettingsFields
  <2> QED
    BY <1>1, <2>1, <2>2, <2>4 DEF SettingsInv, SettingsTyped, SettingsShownAreSaved, Same, SettingsFields
<1>4. CASE SaveSettings
  <2> DEFINE s == page.settings
  <2>1. Click([stored |-> s, pref |-> s["notifications"]]
              ++ [changed |-> FALSE, updates |-> page.updates + 1, elsewhere |-> FALSE])
    BY <1>4 DEF SaveSettings, Written
  <2>2. s["notifications"] \in Values \cup {"on", "off"}
    BY <1>1, HasNotifications DEF SavedSettings
  <2>3. LoadedSettings(s, s["notifications"]).settings = s
    BY <1>1, SavedLoads
  <2>4. DOMAIN page' = SettingsFields /\ page'.stored = s /\ page'.pref = s["notifications"]
        /\ page'.updates = page.updates + 1 /\ page'.settings = s
        /\ Same({"aliases", "defaults"})
    BY <1>1, <2>1 DEF Click, Change, ++, Same, SettingsFields
  <2> HIDE DEF s
  <2>5. s \in SavedSettings
    BY <1>1 DEF s
  <2>6. page'.updates \in Nat /\ page'.updates # 0
    BY <1>1, <2>4
  <2>7. page'.settings = LoadedSettings(page'.stored, page'.pref).settings
    BY <2>3, <2>4
  <2> QED
    BY <1>1, <2>2, <2>4, <2>5, <2>6, <2>7 DEF SettingsInv, SettingsTyped, SettingsShownAreSaved, Same
<1>5. CASE ResetToDefaults
  <2>1. DOMAIN page' = SettingsFields /\ page'.settings = page.defaults /\ page'.aliases = Sections /\ page'.changed = TRUE
        /\ Same({"stored", "pref", "language", "locale", "updates", "defaults"})
    BY <1>1, <1>5 DEF ResetToDefaults, Click, Change, ++, Same, SettingsFields
  <2> QED
    BY <1>1, <2>1 DEF SettingsInv, SettingsTyped, SettingsShownAreSaved, Same
<1>6. ASSUME NEW l, ChangeLanguage(l) PROVE SettingsInv'
  <2>1. DOMAIN page' = SettingsFields /\ page'.updates = page.updates + 1
        /\ Same({"settings", "changed", "elsewhere", "aliases", "stored", "pref", "locale", "defaults"})
    BY <1>1, <1>6 DEF ChangeLanguage, Click, Change, ++, Same, SettingsFields
  <2>2. page'.updates \in Nat /\ page'.updates # 0
    BY <1>1, <2>1
  <2> QED
    BY <1>1, <2>1, <2>2 DEF SettingsInv, SettingsTyped, SettingsShownAreSaved, Same
<1>7. CASE LocaleFollows
  <2>1. DOMAIN page' = SettingsFields /\ page'.updates = page.updates - 1 /\ page.updates > 0
        /\ page'.locale = Locale(page.stored, page.language)
        /\ Same({"settings", "changed", "elsewhere", "aliases", "stored", "pref", "language", "defaults"})
    BY <1>1, <1>7 DEF LocaleFollows, Change, Same, SettingsFields
  <2>2. page'.updates \in Nat /\ page'.locale = Locale(page'.stored, page'.language)
    BY <1>1, <2>1 DEF Same
  <2> QED
    BY <1>1, <2>1, <2>2 DEF SettingsInv, SettingsTyped, SettingsShownAreSaved, Same
<1>8. CASE LanguageReload
  <2> DEFINE no == [x \in {} |-> 0]
  <2>1. Reloads ++ no = Reloads
    BY DEF ++, Reloads
  <2>2. Change(Reloads ++ no)
    BY <1>8, <2>1 DEF LanguageReload
  <2>3. DOMAIN no = {}
    OBVIOUS
  <2> HIDE DEF no
  <2> QED
    BY <2>2, <2>3, Reloaded
<1>9. CASE SettingsReload
  <2> DEFINE more == [clicks |-> page.clicks + 1]
  <2>1. Change(Reloads ++ more) /\ DOMAIN more = {"clicks"}
    BY <1>9 DEF SettingsReload, Click
  <2> HIDE DEF more
  <2> QED
    BY <2>1, Reloaded
<1>10. ASSUME NEW v \in Values, OtherTabSaves(v) PROVE SettingsInv'
  <2> DEFINE w == [s \in Sections |-> v]  o == Locale(w, page.language)
  <2>1. Click([stored |-> w, pref |-> w["notifications"]] ++ [locale |-> o, elsewhere |-> TRUE])
    BY <1>10 DEF OtherTabSaves, Written
  <2>2. w \in SavedSettings /\ w["notifications"] \in Values
    BY HasNotifications DEF SavedSettings
  <2> HIDE DEF w, o
  <2>3. DOMAIN page' = SettingsFields /\ page'.stored = w /\ page'.pref = w["notifications"] /\ page'.locale = o
        /\ page'.elsewhere = TRUE
        /\ Same({"settings", "aliases", "updates", "language", "defaults"})
    BY <1>1, <2>1 DEF Click, Change, ++, Same, SettingsFields
  <2>4. page'.locale = Locale(page'.stored, page'.language)
    BY <2>3 DEF Same, o
  <2> QED
    BY <1>1, <2>2, <2>3, <2>4 DEF SettingsInv, SettingsTyped, SettingsShownAreSaved, Same
<1> QED
  BY <1>2, <1>3, <1>4, <1>5, <1>6, <1>7, <1>8, <1>9, <1>10 DEF SettingsNext

-----------------------------------------------------------------------------
(* The shop *)

ShopFields == {"name", "clicks", "view", "cart", "favorites", "elsewhere", "product", "quantity", "lines", "favorite",
               "stored", "storedLines", "marked", "doubled"}
ShopTyped ==
  /\ DOMAIN page = ShopFields
  /\ DOMAIN page.stored = {"cart", "favorites"}
  /\ page.stored.favorites \in Seq(Products) /\ page.marked \in Seq(Products)
  /\ page.favorite \in BOOLEAN /\ page.doubled \in BOOLEAN
  /\ InProduct => page.product \in Products
ShopInv ==
  /\ ShopTyped
  /\ IsInjective(page.stored.favorites)
  /\ ~page.doubled => IsInjective(page.marked)
  /\ page.favorites \in Seq(Products) /\ IsInjective(page.favorites)
  /\ InList /\ "cart" \notin page.elsewhere => page.cart = page.stored.cart
  /\ InList /\ "favorites" \notin page.elsewhere => page.favorites = page.stored.favorites
  /\ InProduct /\ "lines" \notin page.elsewhere => page.lines = page.storedLines
  /\ InProduct /\ "marks" \notin page.elsewhere /\ ~page.doubled =>
       page.favorite = (page.product \in ToSet(page.marked))

LEMMA ShopInvMeans == ShopInv /\ On("shop") => ShopRemembers
  BY DEF ShopInv, ShopRemembers, InList, InProduct

LEMMA ShopInitInv == ShopInit => ShopInv
<1> SUFFICES ASSUME ShopInit PROVE ShopInv
  OBVIOUS
<1>1. page = [view |-> "list", cart |-> <<>>, favorites |-> <<>>, elsewhere |-> {}]
         ++ [name |-> "shop", clicks |-> 0, product |-> None, quantity |-> 1, lines |-> NoLines, favorite |-> FALSE,
             stored |-> NoKeys, storedLines |-> NoLines, marked |-> <<>>, doubled |-> FALSE]
  BY DEF ShopInit, ListOpened, NoKeys
<1>2. /\ DOMAIN page = ShopFields /\ page.view = "list" /\ page.cart = <<>> /\ page.favorites = <<>>
      /\ page.stored = NoKeys /\ page.marked = <<>> /\ page.favorite = FALSE /\ page.doubled = FALSE
  BY <1>1 DEF ++, ShopFields
<1>3. page.stored.cart = <<>> /\ page.stored.favorites = <<>> /\ DOMAIN page.stored = {"cart", "favorites"}
  BY <1>2 DEF NoKeys
<1>4. ShopTyped
  <2>1. page.stored.favorites \in Seq(Products) /\ page.marked \in Seq(Products)
    BY <1>2, <1>3
  <2>2. page.favorite \in BOOLEAN /\ page.doubled \in BOOLEAN /\ page.view # "product"
    BY <1>2
  <2> QED
    BY <1>2, <1>3, <2>1, <2>2 DEF ShopTyped, InProduct
<1>5. InList /\ ~InProduct /\ page.favorites = page.stored.favorites /\ page.cart = page.stored.cart
  BY <1>2, <1>3 DEF InList, InProduct
<1>6. /\ IsInjective(page.stored.favorites) /\ IsInjective(page.marked)
      /\ page.favorites \in Seq(Products) /\ IsInjective(page.favorites)
  BY <1>2, <1>3 DEF IsInjective
<1> QED
  BY <1>4, <1>5, <1>6 DEF ShopInv

\* Switching twice has no effect on the others: an entry comes or goes, once.
LEMMA SwitchedOnce ==
  ASSUME NEW favorites \in Seq(Products), IsInjective(favorites), NEW p \in Products
  PROVE  Switched(favorites, p) \in Seq(Products) /\ IsInjective(Switched(favorites, p))
<1>1. CASE p \in ToSet(favorites)
  <2>1. \A i, j \in DOMAIN favorites : favorites[i] = favorites[j] => i = j
    BY DEF IsInjective
  <2> DEFINE kept == Keep(favorites, Products \ {p})
  <2>2. kept \in Seq(Products) /\ \A i, j \in DOMAIN kept : kept[i] = kept[j] => i = j
    BY <2>1, KeepIn
  <2>3. Switched(favorites, p) = kept
    BY <1>1 DEF Switched
  <2> HIDE DEF kept
  <2> QED
    BY <2>2, <2>3 DEF IsInjective
<1>2. CASE p \notin ToSet(favorites)
  BY <1>2 DEF Switched, ToSet, IsInjective
<1> QED
  BY <1>1, <1>2

\* The first entry of a product is the only one if no product has two.
LEMMA RemovedFirst ==
  ASSUME NEW s \in Seq(Products), NEW p \in Products
  PROVE  /\ RemoveFirst(s, p) \in Seq(Products)
         /\ IsInjective(s) => IsInjective(RemoveFirst(s, p)) /\ p \notin ToSet(RemoveFirst(s, p))
<1>1. CASE ~\E i \in 1 .. Len(s) : s[i] = p
  BY <1>1 DEF RemoveFirst, ToSet
<1>2. CASE \E i \in 1 .. Len(s) : s[i] = p
  <2> DEFINE I == {i \in 1 .. Len(s) : s[i] = p}
             k == Min(I)
  <2>1. RemoveFirst(s, p) = RemoveAt(s, k)
    BY <1>2 DEF RemoveFirst, SelectInSeq
  <2>2. I \subseteq Nat /\ I # {}
    BY <1>2
  <2>3. \E x \in I : \A y \in I : x <= y
    BY <2>2, LeastNumber
  <2>4. k \in I
    <3> HIDE DEF I
    <3> QED
      BY <2>3 DEF Min
  <2>5. k \in DOMAIN s /\ s[k] = p
    BY <2>4
  <2> HIDE DEF I, k
  <2> DEFINE r == RemoveAt(s, k)
  <2>6. /\ r \in Seq(Products) /\ Len(r) = Len(s) - 1
        /\ \A i \in DOMAIN r : r[i] = IF i < k THEN s[i] ELSE s[i + 1]
    BY <2>5, RemovedAt
  <2> HIDE DEF r
  <2>7. ASSUME IsInjective(s) PROVE IsInjective(r) /\ p \notin ToSet(r)
    <3>1. \A i \in DOMAIN r : \E j \in DOMAIN s : j = (IF i < k THEN i ELSE i + 1) /\ r[i] = s[j] /\ j # k
      BY <2>5, <2>6
    <3>2. \A i, j \in DOMAIN s : s[i] = s[j] => i = j
      BY <2>7 DEF IsInjective
    <3>3. \A i \in DOMAIN r : r[i] # p
      BY <2>5, <3>1, <3>2
    <3>4. ASSUME NEW i \in DOMAIN r, NEW j \in DOMAIN r, r[i] = r[j] PROVE i = j
      <4>1. (IF i < k THEN i ELSE i + 1) = (IF j < k THEN j ELSE j + 1)
        BY <3>1, <3>2, <3>4
      <4>2. i \in Nat /\ j \in Nat /\ k \in Nat
        BY <2>5, <2>6
      <4> QED
        BY <4>1, <4>2
    <3> QED
      BY <3>3, <3>4 DEF IsInjective, ToSet
  <2> QED
    BY <2>1, <2>6, <2>7 DEF r
<1> QED
  BY <1>1, <1>2

LEMMA MarkedTyped ==
  ASSUME ShopInv, NEW p \in Products, NEW marked \in BOOLEAN
  PROVE  LET r == MarkSwitched(p, marked) IN
           /\ DOMAIN r = {"marked", "doubled"}
           /\ r.marked \in Seq(Products) /\ r.doubled \in BOOLEAN
           /\ ~r.doubled => /\ ~page.doubled /\ IsInjective(r.marked)
                            /\ (p \in ToSet(r.marked)) = ~marked
<1> DEFINE s == page.marked
           m == IF ~marked THEN Append(s, p) ELSE RemoveFirst(s, p)
           d == page.doubled \/ (~marked /\ p \in ToSet(s))
<1>1. s \in Seq(Products) /\ page.doubled \in BOOLEAN /\ (~page.doubled => IsInjective(s))
  BY DEF ShopInv, ShopTyped
<1>2. MarkSwitched(p, marked) = [marked |-> m, doubled |-> d]
  BY DEF MarkSwitched
<1> HIDE DEF s
<1>3. RemoveFirst(s, p) \in Seq(Products)
      /\ (IsInjective(s) => IsInjective(RemoveFirst(s, p)) /\ p \notin ToSet(RemoveFirst(s, p)))
  BY <1>1, RemovedFirst
<1>4. Append(s, p) \in Seq(Products) /\ p \in ToSet(Append(s, p))
  <2>1. Append(s, p)[Len(s) + 1] = p /\ Len(s) + 1 \in DOMAIN Append(s, p)
    BY <1>1
  <2> QED
    BY <1>1, <2>1 DEF ToSet
<1>5. ASSUME IsInjective(s), p \notin ToSet(s) PROVE IsInjective(Append(s, p))
  <2>1. \A i \in DOMAIN s : s[i] # p
    BY <1>5 DEF ToSet
  <2>2. \A i, j \in DOMAIN s : s[i] = s[j] => i = j
    BY <1>5 DEF IsInjective
  <2> QED
    BY <1>1, <2>1, <2>2 DEF IsInjective
<1>6. m \in Seq(Products)
  BY <1>3, <1>4
<1>7. ~d => ~page.doubled /\ IsInjective(m) /\ (p \in ToSet(m)) = ~marked
  BY <1>1, <1>3, <1>4, <1>5
<1>8. d \in BOOLEAN
  BY <1>1
<1> DEFINE r == [marked |-> m, doubled |-> d]
<1> HIDE DEF m, d
<1>9. DOMAIN r = {"marked", "doubled"} /\ r.marked = m /\ r.doubled = d
  OBVIOUS
<1>10. MarkSwitched(p, marked) = r
  BY <1>2
<1> HIDE DEF r
<1> QED
  BY <1>6, <1>7, <1>8, <1>9, <1>10

LEMMA ShopStep ==
  ASSUME On("shop"), ShopInv, ShopNext
  PROVE  ShopInv'
<1>1. /\ DOMAIN page = ShopFields
      /\ DOMAIN page.stored = {"cart", "favorites"}
      /\ page.stored.favorites \in Seq(Products) /\ page.marked \in Seq(Products)
      /\ page.favorite \in BOOLEAN /\ page.doubled \in BOOLEAN
      /\ IsInjective(page.stored.favorites)
      /\ page.favorites \in Seq(Products) /\ IsInjective(page.favorites)
      /\ ~page.doubled => IsInjective(page.marked)
      /\ page.view = "product" => page.product \in Products
  BY DEF ShopInv, ShopTyped, InProduct
<1>2. CASE OpenShop
  <2>1. /\ DOMAIN page' = ShopFields /\ page'.view = "list" /\ page'.cart = page.stored.cart
        /\ page'.favorites = page.stored.favorites /\ page'.stored = page.stored
        /\ Same({"favorite", "marked", "doubled"})
    BY <1>1, <1>2 DEF OpenShop, ListOpened, Click, Change, ++, Same, ShopFields
  <2> QED
    BY <1>1, <2>1 DEF ShopInv, ShopTyped, InList, InProduct, Same
<1>3. ASSUME NEW p \in Products, OpenProduct(p) PROVE ShopInv'
  <2>1. /\ DOMAIN page' = ShopFields /\ page'.view = "product" /\ page'.product = p
        /\ page'.lines = page.storedLines /\ page'.favorite = (p \in ToSet(page.marked))
        /\ Same({"favorites", "stored", "storedLines", "marked", "doubled"})
    BY <1>1, <1>3 DEF OpenProduct, ProductOpened, Click, Change, ++, Same, ShopFields
  <2> QED
    BY <1>1, <2>1 DEF ShopInv, ShopTyped, InList, InProduct, Same
<1>4. ASSUME NEW p \in Products, AddProduct(p) PROVE ShopInv'
  <2> DEFINE c == Append(page.cart, p)
  <2>1. InList /\ Click([cart |-> c, stored |-> [page.stored EXCEPT !.cart = c],
                         elsewhere |-> page.elsewhere \ {"cart"}])
    BY <1>4 DEF AddProduct
  <2> HIDE DEF c
  <2>2. /\ DOMAIN page' = ShopFields /\ page'.cart = c /\ page'.stored = [page.stored EXCEPT !.cart = c]
        /\ page'.elsewhere = page.elsewhere \ {"cart"}
        /\ Same(ShopFields \ {"clicks", "cart", "stored", "elsewhere"})
    BY <1>1, <2>1 DEF Click, Change, ++, Same, ShopFields
  <2>3. DOMAIN page'.stored = {"cart", "favorites"} /\ page'.stored.favorites = page.stored.favorites
        /\ page'.stored.cart = c
    BY <1>1, <2>2
  <2> QED
    BY <1>1, <2>1, <2>2, <2>3 DEF ShopInv, ShopTyped, InList, InProduct, Same, ShopFields
<1>5. ASSUME NEW p \in Products, ToggleListed(p) PROVE ShopInv'
  <2> DEFINE f == Switched(page.favorites, p)
  <2>1. InList /\ Click([favorites |-> f, stored |-> [page.stored EXCEPT !.favorites = f],
                         elsewhere |-> page.elsewhere \ {"favorites"}])
    BY <1>5 DEF ToggleListed
  <2>2. f \in Seq(Products) /\ IsInjective(f)
    BY <1>1, SwitchedOnce
  <2> HIDE DEF f
  <2>3. /\ DOMAIN page' = ShopFields /\ page'.favorites = f /\ page'.stored = [page.stored EXCEPT !.favorites = f]
        /\ page'.elsewhere = page.elsewhere \ {"favorites"}
        /\ Same(ShopFields \ {"clicks", "favorites", "stored", "elsewhere"})
    BY <1>1, <2>1 DEF Click, Change, ++, Same, ShopFields
  <2>4. DOMAIN page'.stored = {"cart", "favorites"} /\ page'.stored.favorites = f
        /\ page'.stored.cart = page.stored.cart
    BY <1>1, <2>3
  <2>5. ShopTyped'
    BY <1>1, <2>2, <2>3, <2>4 DEF ShopTyped, InProduct, Same, ShopFields
  <2> QED
    BY <1>1, <2>1, <2>2, <2>3, <2>4, <2>5 DEF ShopInv, InList, InProduct, Same, ShopFields
<1>6. ASSUME NEW n, ChooseQuantity(n) PROVE ShopInv'
  <2>1. DOMAIN page' = ShopFields /\ Same(ShopFields \ {"clicks", "quantity"})
    BY <1>1, <1>6 DEF ChooseQuantity, Click, Change, ++, Same, ShopFields
  <2> QED
    BY <1>1, <2>1 DEF ShopInv, ShopTyped, InList, InProduct, Same, ShopFields
<1>7. CASE AddToCart
  <2>1. PICK lines : InProduct /\ Click([lines |-> lines, storedLines |-> lines,
                                         elsewhere |-> page.elsewhere \ {"lines"}])
    BY <1>7 DEF AddToCart, LinesAdded
  <2>2. /\ DOMAIN page' = ShopFields /\ page'.lines = page'.storedLines
        /\ page'.elsewhere = page.elsewhere \ {"lines"}
        /\ Same(ShopFields \ {"clicks", "lines", "storedLines", "elsewhere"})
    BY <1>1, <2>1 DEF Click, Change, ++, Same, ShopFields
  <2> QED
    BY <1>1, <2>1, <2>2 DEF ShopInv, ShopTyped, InList, InProduct, Same, ShopFields
\* The other tab writes one key, which this page is then said to be behind of.
<1>8. ASSUME NEW c, Click([elsewhere |-> page.elsewhere \cup {"cart"}, stored |-> [page.stored EXCEPT !.cart = c]])
      PROVE  ShopInv'
  <2>2. /\ DOMAIN page' = ShopFields /\ page'.elsewhere = page.elsewhere \cup {"cart"}
        /\ page'.stored = [page.stored EXCEPT !.cart = c]
        /\ Same(ShopFields \ {"clicks", "elsewhere", "stored"})
    BY <1>1, <1>8 DEF Click, Change, ++, Same, ShopFields
  <2>3. DOMAIN page'.stored = {"cart", "favorites"} /\ page'.stored.favorites = page.stored.favorites
    BY <1>1, <2>2
  <2> QED
    BY <1>1, <2>2, <2>3 DEF ShopInv, ShopTyped, InList, InProduct, Same, ShopFields
<1>9. ASSUME NEW p \in Products, NEW marked \in BOOLEAN,
             Click([elsewhere |-> page.elsewhere \cup {"marks"}] ++ MarkSwitched(p, marked))
      PROVE  ShopInv'
  <2> DEFINE r == MarkSwitched(p, marked)
  <2>1. /\ DOMAIN r = {"marked", "doubled"}
        /\ r.marked \in Seq(Products) /\ r.doubled \in BOOLEAN
        /\ ~r.doubled => ~page.doubled /\ IsInjective(r.marked)
    BY MarkedTyped
  <2>2. Click([elsewhere |-> page.elsewhere \cup {"marks"}] ++ r)
    BY <1>9
  <2> HIDE DEF r
  <2>3. /\ DOMAIN page' = ShopFields /\ page'.elsewhere = page.elsewhere \cup {"marks"}
        /\ page'.marked = r.marked /\ page'.doubled = r.doubled
        /\ Same(ShopFields \ {"clicks", "elsewhere", "marked", "doubled"})
    BY <1>1, <2>1, <2>2 DEF Click, Change, ++, Same, ShopFields
  <2> QED
    BY <1>1, <2>1, <2>3 DEF ShopInv, ShopTyped, InList, InProduct, Same, ShopFields
<1>11. ASSUME NEW p \in Products, NEW old \in {<<>>, page.stored.favorites},
              Click([elsewhere |-> page.elsewhere \cup {"favorites"},
                     stored |-> [page.stored EXCEPT !.favorites = Switched(old, p)]])
       PROVE  ShopInv'
  <2> DEFINE f == Switched(old, p)
  <2>1. Click([elsewhere |-> page.elsewhere \cup {"favorites"}, stored |-> [page.stored EXCEPT !.favorites = f]])
    BY <1>11
  <2>2. old \in Seq(Products) /\ IsInjective(old)
    <3>1. <<>> \in Seq(Products) /\ IsInjective(<<>>)
      BY DEF IsInjective
    <3> QED
      BY <1>1, <1>11, <3>1
  <2>3. f \in Seq(Products) /\ IsInjective(f)
    BY <2>2, SwitchedOnce
  <2> HIDE DEF f
  <2>4. /\ DOMAIN page' = ShopFields /\ page'.elsewhere = page.elsewhere \cup {"favorites"}
        /\ page'.stored = [page.stored EXCEPT !.favorites = f]
        /\ Same(ShopFields \ {"clicks", "elsewhere", "stored"})
    BY <1>1, <2>1 DEF Click, Change, ++, Same, ShopFields
  <2>5. DOMAIN page'.stored = {"cart", "favorites"} /\ page'.stored.favorites = f
        /\ page'.stored.cart = page.stored.cart
    BY <1>1, <2>4
  <2> QED
    BY <1>1, <2>3, <2>4, <2>5 DEF ShopInv, ShopTyped, InList, InProduct, Same, ShopFields
<1>12. ASSUME NEW lines, Click([elsewhere |-> page.elsewhere \cup {"lines"}, storedLines |-> lines]) PROVE ShopInv'
  <2>1. /\ DOMAIN page' = ShopFields /\ page'.elsewhere = page.elsewhere \cup {"lines"}
        /\ Same(ShopFields \ {"clicks", "elsewhere", "storedLines"})
    BY <1>1, <1>12 DEF Click, Change, ++, Same, ShopFields
  <2> QED
    BY <1>1, <2>1 DEF ShopInv, ShopTyped, InList, InProduct, Same, ShopFields
<1>10. CASE ToggleFavorite
  <2> DEFINE m == page.favorite  p == page.product  r == MarkSwitched(p, m)
  <2>1. InProduct /\ Click([favorite |-> ~m] ++ r)
    BY <1>10 DEF ToggleFavorite
  <2>0. p \in Products
    BY <2>1 DEF ShopInv, ShopTyped
  <2>2. /\ DOMAIN r = {"marked", "doubled"}
        /\ r.marked \in Seq(Products) /\ r.doubled \in BOOLEAN
        /\ ~r.doubled => ~page.doubled /\ IsInjective(r.marked) /\ (p \in ToSet(r.marked)) = ~m
    BY <1>1, <2>0, MarkedTyped
  <2> HIDE DEF r
  <2>3. /\ DOMAIN page' = ShopFields /\ page'.favorite = ~page.favorite
        /\ page'.marked = r.marked /\ page'.doubled = r.doubled
        /\ Same(ShopFields \ {"clicks", "favorite", "marked", "doubled"})
    BY <1>1, <2>1, <2>2 DEF Click, Change, ++, Same, ShopFields
  <2>4. ShopTyped'
    BY <1>1, <2>2, <2>3 DEF ShopTyped, InProduct, Same, ShopFields
  <2>5. ~page'.doubled => page'.favorite = (page'.product \in ToSet(page'.marked))
    BY <1>1, <2>2, <2>3 DEF Same, ShopFields
  <2> QED
    BY <1>1, <2>1, <2>2, <2>3, <2>4, <2>5 DEF ShopInv, InList, InProduct, Same, ShopFields
<1> QED
  BY <1>2, <1>3, <1>4, <1>5, <1>6, <1>7, <1>8, <1>9, <1>10, <1>11, <1>12
     DEF ShopNext, OtherTabAdds, OtherTabSwitches, OtherTabFills, OtherTabMarks

-----------------------------------------------------------------------------
(* The notifications *)

NoteFields == {"name", "clicks", "view", "stored", "pushes", "made", "list", "unread", "loading", "busy",
               "selected", "onlyUnread", "swept", "asked"}
Rows == [id : Notes, read : BOOLEAN]
NoteAnswers ==
  {None} \cup [ok : BOOLEAN] \cup [ok : {TRUE}, rows : Seq(Rows)]
  \cup [ok : {TRUE}, count : {Cardinality(S) : S \in SUBSET Notes}] \cup [ok : {TRUE}, covered : SUBSET Notes]
NoteAsks ==
  [op : {"list", "count", "mark", "markAll", "delete", "bulk", "clear"}, ids : SUBSET Notes, seen : Nat,
   answer : NoteAnswers]
NotesTyped ==
  /\ DOMAIN page = NoteFields
  /\ page.made \in Notes
  /\ page.stored \in [Notes -> {"none", "unread", "read"}]
  /\ page.pushes \in Seq([id : Notes, kind : {"start", "end", "failed"}])
  /\ page.list \in Seq(Rows)
  /\ page.asked \in Seq(NoteAsks)

\* Notifications that were made; the others are not stored yet.
Made == {n \in Notes : n <= page.made}
MadeOnly ==
  /\ \A n \in Notes \ Made : page.stored[n] = "none"
  /\ \A k \in DOMAIN page.pushes : page.pushes[k].id \in Made
  /\ \A k \in DOMAIN page.list : page.list[k].id \in Made
  /\ page.selected \subseteq Made
  /\ \A k \in DOMAIN page.asked : page.asked[k].ids \subseteq Made
\* They are not to be read any more.
Settled(n) == n \in Made /\ page.stored[n] # "unread"
RowsSettled(rows) == \A k \in DOMAIN rows : rows[k].id \in Made /\ (rows[k].read => Settled(rows[k].id))
\* What an answer on its way says is so.
AnswerHolds(r) ==
  r.answer # None /\ r.answer.ok =>
    /\ r.op = "list" => r.answer.rows \in Seq(Rows) /\ RowsSettled(r.answer.rows)
    /\ r.op = "mark" => \A n \in r.ids : Settled(n)
    /\ r.op = "markAll" => \A n \in r.answer.covered : Settled(n)
AnswersHold == \A k \in DOMAIN page.asked : AnswerHolds(page.asked[k])
ReadSettled == \A k \in DOMAIN page.list : page.list[k].read => Settled(page.list[k].id) \/ page.list[k].id \in page.swept

NotesInv == NotesTyped /\ MadeOnly /\ AnswersHold /\ ReadSettled

LEMMA NotesInvMeans == NotesInv /\ On("notifications") => ReadIsRead
  BY DEF NotesInv, ReadSettled, Settled, ReadIsRead

LEMMA NotesKnown == Notes \subseteq Nat \ {0} /\ 1 \in Notes /\ MaxNotes \in Nat /\ \A n \in Nat : n \in Notes <=> 1 <= n /\ n <= MaxNotes
  BY NotesAssumption DEF Notes

LEMMA NotesInitInv == NotesInit => NotesInv
<1> SUFFICES ASSUME NotesInit PROVE NotesInv
  OBVIOUS
<1> DEFINE stored == [n \in Notes |-> IF n = 1 THEN "unread" ELSE "none"]
           asks(view) == <<NoteAsk("list", {}, 0)>> \o (IF view = "page" THEN <<NoteAsk("count", {}, 0)>> ELSE <<>>)
<1>1. PICK view \in {"page", "bar"} :
          page = [name |-> "notifications", clicks |-> 0, view |-> view, stored |-> stored, pushes |-> <<>>,
                  made |-> 1, list |-> <<>>, unread |-> 0, loading |-> TRUE, busy |-> FALSE, selected |-> {},
                  onlyUnread |-> FALSE, swept |-> {}, asked |-> asks(view)]
  BY Zenon DEF NotesInit
<1> DEFINE a == NoteAsk("list", {}, 0)  b == NoteAsk("count", {}, 0)
<1>2. a \in NoteAsks /\ b \in NoteAsks /\ a.answer = None /\ b.answer = None /\ a.ids = {} /\ b.ids = {}
  BY DEF NoteAsk, NoteAsks, NoteAnswers
<1>3. asks(view) = <<a>> \o (IF view = "page" THEN <<b>> ELSE <<>>)
  OBVIOUS
<1> HIDE DEF a, b, asks
<1>4. /\ asks(view) \in Seq(NoteAsks)
      /\ \A k \in DOMAIN asks(view) : asks(view)[k].answer = None /\ asks(view)[k].ids = {}
  <2>1. CASE view = "page"
    <3>1. asks(view) = <<a>> \o <<b>>
      BY <1>3, <2>1
    <3>2. DOMAIN (<<a>> \o <<b>>) = 1 .. 2 /\ (<<a>> \o <<b>>)[1] = a /\ (<<a>> \o <<b>>)[2] = b
          /\ <<a>> \o <<b>> \in Seq(NoteAsks)
      BY <1>2
    <3>3. \A k \in 1 .. 2 : k = 1 \/ k = 2
      OBVIOUS
    <3> QED
      BY <1>2, <3>1, <3>2, <3>3
  <2>2. CASE view # "page"
    <3>1. asks(view) = <<a>>
      BY <1>2, <1>3, <2>2
    <3> QED
      BY <1>2, <3>1
  <2> QED
    BY <2>1, <2>2
<1>5. stored \in [Notes -> {"none", "unread", "read"}] /\ \A n \in Notes : n # 1 => stored[n] = "none"
  OBVIOUS
<1> HIDE DEF stored
<1>6. /\ DOMAIN page = NoteFields /\ page.made = 1 /\ page.stored = stored /\ page.pushes = <<>> /\ page.list = <<>>
      /\ page.selected = {} /\ page.asked = asks(view)
  BY <1>1 DEF NoteFields
<1>7. NotesTyped
  BY <1>4, <1>5, <1>6, NotesKnown DEF NotesTyped
<1>8. MadeOnly
  BY <1>4, <1>5, <1>6, NotesKnown DEF MadeOnly, Made
<1> QED
  BY <1>4, <1>6, <1>7, <1>8 DEF NotesInv, AnswersHold, AnswerHolds, ReadSettled

\* What was read stays so: a step that makes no notification unread again keeps what the view and the answers say.
LEMMA StaysSettled ==
  ASSUME NotesInv, page'.made >= page.made, page'.made \in Notes,
         \A n \in Made : page'.stored[n] \in {page.stored[n], "read", "none"}
  PROVE  /\ Made \subseteq Made'
         /\ \A n : Settled(n) => Settled(n)'
         /\ \A r : AnswerHolds(r) => AnswerHolds(r)'
<1>1. Made \subseteq Made'
  <2>1. page.made \in Nat /\ page'.made \in Nat /\ \A n \in Notes : n \in Nat
    BY NotesKnown DEF NotesInv, NotesTyped
  <2>2. \A n \in Notes : n <= page.made => n <= page'.made
    BY <2>1
  <2> QED
    BY <2>2 DEF Made
<1>2. ASSUME NEW n, Settled(n) PROVE Settled(n)'
  BY <1>1, <1>2 DEF Settled
<1>3. \A n : Settled(n) => Settled(n)'
  BY <1>2
<1>4. ASSUME NEW rows, RowsSettled(rows) PROVE RowsSettled(rows)'
  BY <1>1, <1>3, <1>4 DEF RowsSettled
<1>5. ASSUME NEW r, AnswerHolds(r) PROVE AnswerHolds(r)'
  <2>1. CASE ~(r.answer # None /\ r.answer.ok)
    BY <2>1 DEF AnswerHolds
  <2>2. CASE r.answer # None /\ r.answer.ok
    <3>1. r.op = "list" => r.answer.rows \in Seq(Rows) /\ RowsSettled(r.answer.rows)'
      BY <1>4, <1>5, <2>2 DEF AnswerHolds
    <3>2. r.op = "mark" => \A n \in r.ids : Settled(n)'
      BY <1>3, <1>5, <2>2 DEF AnswerHolds
    <3>3. r.op = "markAll" => \A n \in r.answer.covered : Settled(n)'
      BY <1>3, <1>5, <2>2 DEF AnswerHolds
    <3> QED
      BY <3>1, <3>2, <3>3 DEF AnswerHolds
  <2> QED
    BY <2>1, <2>2
<1> QED
  BY <1>1, <1>3, <1>5

\* A request more.
LEMMA NoteAsked ==
  ASSUME NotesInv, NEW op \in {"mark", "markAll", "delete", "bulk", "clear"}, NEW ids, ids \subseteq Made,
         NEW seen \in Nat, NEW fields, DOMAIN fields \subseteq {"busy"}, Ask(op, ids, seen, fields)
  PROVE  NotesInv'
<1> DEFINE r == NoteAsk(op, ids, seen)
<1>1. r \in NoteAsks /\ r.answer = None /\ r.ids = ids
  BY DEF NoteAsk, NoteAsks, NoteAnswers, Made
<1>2. Click(fields ++ [asked |-> Append(page.asked, r)])
  BY DEF Ask
<1> HIDE DEF r
<1>3. /\ DOMAIN page' = NoteFields /\ page'.asked = Append(page.asked, r)
      /\ Same(NoteFields \ {"asked", "busy", "clicks"})
  BY <1>2 DEF NotesInv, NotesTyped, Click, Change, ++, Same, NoteFields
<1>4. /\ page'.asked \in Seq(NoteAsks)
      /\ \A k \in DOMAIN page'.asked : page'.asked[k] = r \/ (k \in DOMAIN page.asked /\ page'.asked[k] = page.asked[k])
  BY <1>1, <1>3 DEF NotesInv, NotesTyped
<1>5. /\ page'.made = page.made /\ page'.stored = page.stored /\ page'.pushes = page.pushes /\ page'.list = page.list
      /\ page'.selected = page.selected /\ page'.swept = page.swept
  BY <1>3 DEF Same, NoteFields
<1>6. Made' = Made /\ \A n : Settled(n)' = Settled(n)
  BY <1>5 DEF Made, Settled
<1>7. \A q : AnswerHolds(q) => AnswerHolds(q)'
  BY <1>6 DEF AnswerHolds, RowsSettled
<1>8. NotesTyped'
  BY <1>3, <1>4, <1>5 DEF NotesInv, NotesTyped
<1>9. MadeOnly'
  BY <1>1, <1>4, <1>5, <1>6 DEF NotesInv, MadeOnly
<1>10. AnswersHold'
  <2>1. \A k \in DOMAIN page'.asked : AnswerHolds(page'.asked[k])
    BY <1>1, <1>4 DEF NotesInv, AnswersHold, AnswerHolds
  <2> QED
    BY <1>7, <2>1 DEF AnswersHold
<1> QED
  BY <1>5, <1>6, <1>8, <1>9, <1>10 DEF NotesInv, ReadSettled

\* What the view shows changes, and the requests under way; nothing at the server.
LEMMA NotesViewed ==
  ASSUME NotesInv, DOMAIN page' = NoteFields, Same({"made", "stored", "pushes"}),
         page'.list \in Seq(Rows), page'.selected \subseteq Made,
         \A k \in DOMAIN page'.list :
           LET r == page'.list[k] IN r.id \in Made /\ (r.read => Settled(r.id) \/ r.id \in page'.swept),
         page'.asked \in Seq(NoteAsks),
         \A k \in DOMAIN page'.asked : page'.asked[k].ids \subseteq Made /\ AnswerHolds(page'.asked[k])
  PROVE  NotesInv'
<1>1. page'.made = page.made /\ page'.stored = page.stored /\ page'.pushes = page.pushes
  BY DEF Same
<1>2. Made' = Made /\ \A n : Settled(n)' = Settled(n)
  BY <1>1 DEF Made, Settled
<1>3. \A q : AnswerHolds(q) => AnswerHolds(q)'
  BY <1>2 DEF AnswerHolds, RowsSettled
<1>4. NotesTyped'
  BY <1>1 DEF NotesInv, NotesTyped
<1>5. MadeOnly'
  BY <1>1, <1>2 DEF NotesInv, MadeOnly
<1>6. AnswersHold'
  BY <1>3 DEF AnswersHold
<1> QED
  BY <1>2, <1>4, <1>5, <1>6 DEF NotesInv, ReadSettled

\* The rows that are left of those shown.
LEMMA RowsLeft ==
  ASSUME NotesInv, NEW K
  PROVE  /\ Keep(page.list, K) \in Seq(Rows)
         /\ \A k \in DOMAIN Keep(page.list, K) : \E j \in DOMAIN page.list : Keep(page.list, K)[k] = page.list[j]
  BY KeepIn DEF NotesInv, NotesTyped

LEMMA RowsRead ==
  ASSUME NotesInv, NEW ids
  PROVE  /\ AsRead(ids) \in Seq(Rows)
         /\ DOMAIN AsRead(ids) = DOMAIN page.list
         /\ \A k \in DOMAIN page.list :
              AsRead(ids)[k].id = page.list[k].id /\ (AsRead(ids)[k].read => page.list[k].read \/ page.list[k].id \in ids)
<1> DEFINE rows == page.list
           new(k) == IF rows[k].id \in ids THEN [rows[k] EXCEPT !.read = TRUE] ELSE rows[k]
           all == [k \in DOMAIN rows |-> new(k)]
<1>1. rows \in Seq(Rows)
  BY DEF NotesInv, NotesTyped
<1>2. AsRead(ids) = all
  BY DEF AsRead
<1> HIDE DEF rows
<1>3. \A r \in Rows : [r EXCEPT !.read = TRUE] \in Rows /\ [r EXCEPT !.read = TRUE].id = r.id
  BY DEF Rows
<1>4. \A k \in DOMAIN rows : rows[k] \in Rows
  BY <1>1
<1>5. \A k \in DOMAIN rows : new(k) \in Rows /\ new(k).id = rows[k].id /\ (new(k).read => rows[k].read \/ rows[k].id \in ids)
  BY <1>3, <1>4
<1> HIDE DEF new
<1>6. DOMAIN all = DOMAIN rows /\ \A k \in DOMAIN rows : all[k] = new(k)
  OBVIOUS
<1>7. all \in Seq(Rows)
  <2>1. DOMAIN rows = 1 .. Len(rows) /\ Len(rows) \in Nat
    BY <1>1
  <2> QED
    BY <1>5, <2>1
<1> HIDE DEF all
<1> QED
  BY <1>2, <1>5, <1>6, <1>7 DEF rows

\* What an answer changes on the view.
LEMMA NoteShownSettled ==
  ASSUME NotesInv, NEW r \in NoteAsks, AnswerHolds(r), r.answer # None
  PROVE  LET f == NoteShown(r)
             list == IF "list" \in DOMAIN f THEN f.list ELSE page.list
             swept == IF "swept" \in DOMAIN f THEN f.swept ELSE page.swept IN
           /\ DOMAIN f \subseteq {"list", "unread", "loading", "busy", "swept", "selected"}
           /\ "selected" \in DOMAIN f => f.selected = {}
           /\ list \in Seq(Rows)
           /\ \A k \in DOMAIN list : list[k].id \in Made /\ (list[k].read => Settled(list[k].id) \/ list[k].id \in swept)
<1>0. /\ page.list \in Seq(Rows)
      /\ \A k \in DOMAIN page.list :
           page.list[k].id \in Made /\ (page.list[k].read => Settled(page.list[k].id) \/ page.list[k].id \in page.swept)
  BY DEF NotesInv, NotesTyped, MadeOnly, ReadSettled
<1> DEFINE f == NoteShown(r)
           list == IF "list" \in DOMAIN f THEN f.list ELSE page.list
           swept == IF "swept" \in DOMAIN f THEN f.swept ELSE page.swept
           OK(l, s) == /\ l \in Seq(Rows)
                       /\ \A k \in DOMAIN l : l[k].id \in Made /\ (l[k].read => Settled(l[k].id) \/ l[k].id \in s)
           Good == /\ DOMAIN f \subseteq {"list", "unread", "loading", "busy", "swept", "selected"}
                   /\ "selected" \in DOMAIN f => f.selected = {}
                   /\ OK(list, swept)
<1> SUFFICES Good
  OBVIOUS
<1>1. OK(page.list, page.swept) /\ OK(<<>>, page.swept)
  BY <1>0
<1>2. \A K : OK(Keep(page.list, K), page.swept)
  <2> TAKE K
  <2>1. /\ Keep(page.list, K) \in Seq(Rows)
        /\ \A k \in DOMAIN Keep(page.list, K) : \E j \in DOMAIN page.list : Keep(page.list, K)[k] = page.list[j]
    BY RowsLeft
  <2> QED
    BY <1>0, <2>1
<1>3. ASSUME NEW ids, NEW s, page.swept \subseteq s,
             \A k \in DOMAIN page.list : page.list[k].id \in ids => Settled(page.list[k].id) \/ page.list[k].id \in s
      PROVE  OK(AsRead(ids), s)
  <2>1. /\ AsRead(ids) \in Seq(Rows)
        /\ DOMAIN AsRead(ids) = DOMAIN page.list
        /\ \A k \in DOMAIN page.list :
             AsRead(ids)[k].id = page.list[k].id /\ (AsRead(ids)[k].read => page.list[k].read \/ page.list[k].id \in ids)
    BY RowsRead
  <2> QED
    BY <1>0, <1>3, <2>1
<1> HIDE DEF OK
<1>4. DOMAIN <<>> = {}
  OBVIOUS
<1>5. CASE r.op = "list"
  <2>1. f = Listed(r)
    BY <1>5 DEF NoteShown
  <2>2. CASE r.answer.ok
    <3>1. OK(r.answer.rows, page.swept)
      BY <1>5, <2>2 DEF AnswerHolds, RowsSettled, OK
    <3>2. f = [list |-> r.answer.rows, loading |-> FALSE]
      BY <2>1, <2>2 DEF Listed, Succeeded
    <3> HIDE DEF f
    <3> QED
      BY <3>1, <3>2
  <2>3. CASE ~r.answer.ok
    <3>1. f = [loading |-> FALSE]
      BY <2>1, <2>3 DEF Listed, Succeeded
    <3> HIDE DEF f
    <3> QED
      BY <1>1, <3>1
  <2> QED
    BY <2>2, <2>3
<1>6. CASE r.op = "count"
  <2>1. \E n : f = [unread |-> n]
    BY <1>6 DEF NoteShown, Counted
  <2> HIDE DEF f
  <2> QED
    BY <1>1, <2>1
<1>7. CASE r.op = "mark"
  <2>1. f = Marked(r)
    BY <1>7 DEF NoteShown
  <2>2. CASE r.answer.ok
    <3>1. OK(AsRead(r.ids), page.swept)
      BY <1>3, <1>7, <2>2 DEF AnswerHolds
    <3>2. \E n : f = [list |-> AsRead(r.ids), unread |-> n]
      BY <2>1, <2>2 DEF Marked, Succeeded
    <3> HIDE DEF f
    <3> QED
      BY <3>1, <3>2
  <2>3. CASE ~r.answer.ok
    <3>1. f = <<>>
      BY <2>1, <2>3 DEF Marked, Succeeded
    <3> HIDE DEF f
    <3> QED
      BY <1>1, <1>4, <3>1
  <2> QED
    BY <2>2, <2>3
<1>8. CASE r.op = "markAll"
  <2>1. f = MarkedAll(r)
    BY <1>8 DEF NoteShown
  <2>2. CASE r.answer.ok
    <3> DEFINE s == page.swept \cup (Ids(page.list) \ r.answer.covered)  l == AsRead(Notes)
    <3>1. \A k \in DOMAIN page.list : Settled(page.list[k].id) \/ page.list[k].id \in s
      BY <1>8, <2>2 DEF AnswerHolds, Ids
    <3>2. OK(l, s)
      BY <1>3, <3>1
    <3>3. f = [busy |-> FALSE] ++ [list |-> l, unread |-> 0, swept |-> s]
      BY <2>1, <2>2 DEF MarkedAll, Succeeded
    <3> HIDE DEF f, s, l
    <3>4. DOMAIN f = {"busy", "list", "unread", "swept"} /\ f.list = l /\ f.swept = s
      BY <3>3 DEF ++
    <3> QED
      BY <3>2, <3>4
  <2>3. CASE ~r.answer.ok
    <3>1. f = [busy |-> FALSE] ++ <<>>
      BY <2>1, <2>3 DEF MarkedAll, Succeeded
    <3> HIDE DEF f
    <3>2. DOMAIN f = {"busy"}
      BY <1>4, <3>1 DEF ++
    <3> QED
      BY <1>1, <3>2
  <2> QED
    BY <2>2, <2>3
<1>9. CASE r.op = "delete"
  <2>1. f = Deleted(r)
    BY <1>9 DEF NoteShown
  <2>2. CASE r.answer.ok
    <3>1. \E n, K : f = [list |-> Keep(page.list, K), unread |-> n]
      BY <2>1, <2>2 DEF Deleted, Succeeded, Unlisted
    <3> HIDE DEF f
    <3> QED
      BY <1>2, <3>1
  <2>3. CASE ~r.answer.ok
    <3>1. f = <<>>
      BY <2>1, <2>3 DEF Deleted, Succeeded
    <3> HIDE DEF f
    <3> QED
      BY <1>1, <1>4, <3>1
  <2> QED
    BY <2>2, <2>3
<1>10. CASE r.op = "bulk"
  <2>1. \E n, K : f = [selected |-> {}, list |-> Keep(page.list, K), unread |-> n]
    BY <1>10 DEF NoteShown, DeletedSelected, Unlisted
  <2> HIDE DEF f
  <2> QED
    BY <1>2, <2>1
<1>11. CASE r.op = "clear"
  <2>1. f = NoteCleared(r)
    BY <1>11 DEF NoteShown
  <2>2. CASE r.answer.ok
    <3>1. f = [busy |-> FALSE] ++ [list |-> <<>>, unread |-> 0]
      BY <2>1, <2>2 DEF NoteCleared, Succeeded
    <3> HIDE DEF f
    <3>2. DOMAIN f = {"busy", "list", "unread"} /\ f.list = <<>>
      BY <3>1 DEF ++
    <3> QED
      BY <1>1, <3>2
  <2>3. CASE ~r.answer.ok
    <3>1. f = [busy |-> FALSE] ++ <<>>
      BY <2>1, <2>3 DEF NoteCleared, Succeeded
    <3> HIDE DEF f
    <3>2. DOMAIN f = {"busy"}
      BY <1>4, <3>1 DEF ++
    <3> QED
      BY <1>1, <3>2
  <2> QED
    BY <2>2, <2>3
<1>12. r.op \in {"list", "count", "mark", "markAll", "delete", "bulk", "clear"}
  BY DEF NoteAsks
<1> HIDE DEF Good
<1> QED
  BY <1>5, <1>6, <1>7, <1>8, <1>9, <1>10, <1>11, <1>12

\* The server makes nothing unread, and nothing that it had not.
LEMMA StoredByServer ==
  ASSUME NotesInv, NEW r \in NoteAsks
  PROVE  /\ StoredBy(r) \in [Notes -> {"none", "unread", "read"}]
         /\ \A n \in Notes : StoredBy(r)[n] \in {page.stored[n], "read", "none"}
                             /\ (page.stored[n] = "none" => StoredBy(r)[n] = "none")
<1>1. page.stored \in [Notes -> {"none", "unread", "read"}]
  BY DEF NotesInv, NotesTyped
<1>2. \A n \in Notes : /\ Mark(n) \in {page.stored[n], "read"} /\ Mark(n) \in {"none", "unread", "read"}
                       /\ (page.stored[n] = "none" => Mark(n) = "none")
  BY <1>1 DEF Mark
<1>3. CASE r.op = "mark"
  <2>1. StoredBy(r) = [n \in Notes |-> IF n \in r.ids THEN Mark(n) ELSE page.stored[n]]
    BY <1>3 DEF StoredBy
  <2> QED
    BY <1>1, <1>2, <2>1
<1>4. CASE r.op = "markAll"
  <2>1. StoredBy(r) = [n \in Notes |-> Mark(n)]
    BY <1>4 DEF StoredBy
  <2> QED
    BY <1>1, <1>2, <2>1
<1>5. CASE r.op \in {"delete", "bulk"}
  <2>1. StoredBy(r) = [n \in Notes |-> IF n \in r.ids THEN "none" ELSE page.stored[n]]
    BY <1>5 DEF StoredBy
  <2> QED
    BY <1>1, <2>1
<1>6. CASE r.op = "clear"
  <2>1. StoredBy(r) = [n \in Notes |-> "none"]
    BY <1>6 DEF StoredBy
  <2> QED
    BY <1>1, <2>1
<1>7. CASE r.op \in {"list", "count"}
  <2>1. StoredBy(r) = page.stored
    BY <1>7 DEF StoredBy
  <2> QED
    BY <1>1, <2>1
<1>8. r.op \in {"list", "count", "mark", "markAll", "delete", "bulk", "clear"}
  BY DEF NoteAsks
<1> QED
  BY <1>3, <1>4, <1>5, <1>6, <1>7, <1>8

\* The list that the server answers.
LEMMA ListedByServer ==
  ASSUME NotesInv
  PROVE  LET newest == Keep([k \in Notes |-> MaxNotes + 1 - k], Held)
             rows == [k \in DOMAIN newest |-> Row(newest[k], page.stored[newest[k]] = "read")] IN
           rows \in Seq(Rows) /\ RowsSettled(rows)
<1> DEFINE newest == Keep([k \in Notes |-> MaxNotes + 1 - k], Held)
           new(k) == Row(newest[k], page.stored[newest[k]] = "read")
           rows == [k \in DOMAIN newest |-> new(k)]
<1>1. [k \in Notes |-> MaxNotes + 1 - k] \in Seq(Notes)
  BY NotesKnown DEF Notes
<1>2. newest \in Seq(Notes) /\ \A k \in DOMAIN newest : newest[k] \in Held
  BY <1>1, KeepIn
<1>3. Held \subseteq Made
  BY DEF NotesInv, MadeOnly, Held, Made
<1> HIDE DEF newest
<1>4. \A n \in Notes, b \in BOOLEAN : Row(n, b) \in Rows /\ Row(n, b).id = n /\ Row(n, b).read = b
  BY DEF Row, Rows
<1>5. \A k \in DOMAIN newest : /\ new(k) \in Rows /\ new(k).id = newest[k]
                               /\ new(k).read = (page.stored[newest[k]] = "read")
  <2> TAKE k \in DOMAIN newest
  <2> DEFINE n == newest[k]  b == page.stored[newest[k]] = "read"
  <2>1. n \in Notes /\ b \in BOOLEAN /\ new(k) = Row(n, b)
    BY <1>2
  <2> HIDE DEF n, b, new
  <2>2. new(k) \in Rows /\ new(k).id = n /\ new(k).read = b
    BY <1>4, <2>1
  <2> QED
    BY <2>2 DEF n, b
<1> HIDE DEF new
<1>6. DOMAIN rows = DOMAIN newest /\ \A k \in DOMAIN newest : rows[k] = new(k)
  OBVIOUS
<1>7. rows \in Seq(Rows)
  <2>1. DOMAIN newest = 1 .. Len(newest) /\ Len(newest) \in Nat
    BY <1>2
  <2> QED
    BY <1>5, <2>1
<1> HIDE DEF rows
<1>8. ASSUME NEW k \in DOMAIN rows PROVE rows[k].id \in Made /\ (rows[k].read => Settled(rows[k].id))
  <2>1. newest[k] \in Made /\ rows[k].id = newest[k] /\ rows[k].read = (page.stored[newest[k]] = "read")
    BY <1>2, <1>3, <1>5, <1>6
  <2> QED
    BY <2>1 DEF Settled
<1> QED
  BY <1>7, <1>8 DEF RowsSettled, rows, new, newest

\* What the server answers holds from then on.
LEMMA AnsweredByServer ==
  ASSUME NotesInv, NEW r \in NoteAsks, r.ids \subseteq Made, page'.made = page.made, page'.stored = StoredBy(r)
  PROVE  AnswerTo(r) \in NoteAnswers /\ \A q : q.op = r.op /\ q.ids = r.ids /\ q.answer = AnswerTo(r) => AnswerHolds(q)'
<1>1. page.stored \in [Notes -> {"none", "unread", "read"}] /\ Made \subseteq Notes /\ Held \subseteq Notes
  BY DEF NotesInv, NotesTyped, Made, Held
<1>2. Made' = Made
  BY DEF Made
<1>3. \A n \in Notes : Mark(n) # "unread"
  BY DEF Mark
<1> DEFINE a == AnswerTo(r)
           Holds == \A q : q.op = r.op /\ q.ids = r.ids /\ q.answer = a => AnswerHolds(q)'
<1> SUFFICES a \in NoteAnswers /\ Holds
  OBVIOUS
<1>4. CASE r.op = "list"
  <2>1. PICK rows : rows \in Seq(Rows) /\ RowsSettled(rows) /\ a = [ok |-> TRUE, rows |-> rows]
    BY <1>4, ListedByServer DEF AnswerTo
  <2> HIDE DEF a
  <2>2. a.rows = rows /\ a \in NoteAnswers
    BY <2>1 DEF NoteAnswers
  <2>3. page'.stored = page.stored
    BY <1>4 DEF StoredBy
  <2>4. \A n : Settled(n)' = Settled(n)
    BY <1>2, <2>3 DEF Settled
  <2>5. RowsSettled(rows)'
    BY <1>2, <2>1, <2>4 DEF RowsSettled
  <2>6. \A q : q.op = r.op /\ q.answer = a => AnswerHolds(q)'
    BY <1>4, <2>1, <2>2, <2>5 DEF AnswerHolds
  <2> QED
    BY <2>2, <2>6
<1>5. CASE r.op = "mark"
  <2>1. a = [ok |-> r.ids \subseteq Held]
    BY <1>5 DEF AnswerTo
  <2>2. StoredBy(r) = [n \in Notes |-> IF n \in r.ids THEN Mark(n) ELSE page.stored[n]]
    BY <1>5 DEF StoredBy
  <2>3. \A n \in r.ids : Settled(n)'
    BY <1>1, <1>2, <1>3, <2>2 DEF Settled
  <2> HIDE DEF a
  <2>4. a \in NoteAnswers
    BY <2>1 DEF NoteAnswers
  <2> QED
    BY <1>5, <2>3, <2>4 DEF AnswerHolds
<1>6. CASE r.op = "markAll"
  <2>1. a = [ok |-> TRUE, covered |-> Held]
    BY <1>6 DEF AnswerTo
  <2>2. StoredBy(r) = [n \in Notes |-> Mark(n)]
    BY <1>6 DEF StoredBy
  <2>3. Held \subseteq Made
    BY DEF NotesInv, MadeOnly, Held, Made
  <2>4. \A n \in Held : Settled(n)'
    BY <1>1, <1>2, <1>3, <2>2, <2>3 DEF Settled
  <2> HIDE DEF a
  <2>5. a.covered = Held /\ a \in NoteAnswers
    BY <1>1, <2>1 DEF NoteAnswers
  <2> QED
    BY <1>6, <2>4, <2>5 DEF AnswerHolds
<1>7. CASE r.op \in {"count", "delete", "bulk", "clear"}
  <2>1. ASSUME r.op = "count" PROVE a \in NoteAnswers
    <3>1. \E S \in SUBSET Notes : a = [ok |-> TRUE, count |-> Cardinality(S)]
      <4>1. a = [ok |-> TRUE, count |-> Cardinality({n \in Notes : page.stored[n] = "unread"})]
        BY <2>1 DEF AnswerTo
      <4> HIDE DEF a
      <4> QED
        BY <4>1
    <3> HIDE DEF a
    <3>2. a \in [ok : {TRUE}, count : {Cardinality(S) : S \in SUBSET Notes}]
      BY <3>1
    <3> QED
      BY <3>2 DEF NoteAnswers
  <2>2. ASSUME r.op \in {"delete", "clear", "bulk"} PROVE a \in NoteAnswers
    <3>1. \E b \in BOOLEAN : a = [ok |-> b]
      BY <2>2 DEF AnswerTo
    <3> HIDE DEF a
    <3>2. a \in [ok : BOOLEAN]
      BY <3>1
    <3> QED
      BY <3>2 DEF NoteAnswers
  <2> HIDE DEF a
  <2>3. a \in NoteAnswers
    BY <1>7, <2>1, <2>2
  <2> QED
    BY <1>7, <2>3 DEF AnswerHolds
<1>8. r.op \in {"list", "count", "mark", "markAll", "delete", "bulk", "clear"}
  BY DEF NoteAsks
<1> HIDE DEF a, Holds
<1> QED
  BY <1>4, <1>5, <1>6, <1>7, <1>8

LEMMA NoteHandledStep ==
  ASSUME NotesInv, NEW k \in DOMAIN page.asked, NoteHandled(k)
  PROVE  NotesInv'
<1> DEFINE r == page.asked[k]
<1>1. PICK reached \in BOOLEAN, heard \in BOOLEAN :
        LET answer == IF reached /\ heard THEN AnswerTo(r) ELSE [ok |-> FALSE] IN
          Change([stored |-> IF reached THEN StoredBy(r) ELSE page.stored,
                  asked |-> [page.asked EXCEPT ![k] = [r EXCEPT !.answer = answer]]])
  BY DEF NoteHandled
<1> DEFINE answer == IF reached /\ heard THEN AnswerTo(r) ELSE [ok |-> FALSE]
           stored == IF reached THEN StoredBy(r) ELSE page.stored
           q == [r EXCEPT !.answer = answer]
           asked == [page.asked EXCEPT ![k] = q]
<1>2. Change([stored |-> stored, asked |-> asked])
  BY <1>1
<1>3. /\ page.asked \in Seq(NoteAsks) /\ r \in NoteAsks /\ DOMAIN page = NoteFields
      /\ r.ids \subseteq Made /\ \A j \in DOMAIN page.asked : page.asked[j].ids \subseteq Made
      /\ page.stored \in [Notes -> {"none", "unread", "read"}] /\ page.made \in Notes
      /\ \A n \in Notes \ Made : page.stored[n] = "none"
  BY DEF NotesInv, NotesTyped, MadeOnly
<1> HIDE DEF r, asked, stored, q
<1>4. /\ DOMAIN page' = NoteFields /\ page'.stored = stored /\ page'.asked = asked
      /\ Same(NoteFields \ {"stored", "asked"})
  BY <1>2, <1>3 DEF Change, Same, NoteFields
<1>5. /\ page'.made = page.made /\ page'.pushes = page.pushes /\ page'.list = page.list
      /\ page'.selected = page.selected /\ page'.swept = page.swept
  BY <1>4 DEF Same, NoteFields
<1>6. /\ stored \in [Notes -> {"none", "unread", "read"}]
      /\ \A n \in Notes : stored[n] \in {page.stored[n], "read", "none"} /\ (page.stored[n] = "none" => stored[n] = "none")
  BY <1>3, StoredByServer DEF stored
<1>7. Made' = Made /\ Made \subseteq Notes
  BY <1>5 DEF Made
<1>8. (\A n : Settled(n) => Settled(n)') /\ \A x : AnswerHolds(x) => AnswerHolds(x)'
  <2>1. page'.made >= page.made /\ page'.made \in Notes
    <3>1. page.made \in Nat
      BY <1>3, NotesKnown
    <3> QED
      BY <1>3, <1>5, <3>1
  <2>2. \A n \in Made : page'.stored[n] \in {page.stored[n], "read", "none"}
    BY <1>4, <1>6, <1>7
  <2> QED
    BY <2>1, <2>2, StaysSettled
<1>9. answer \in NoteAnswers /\ \A x : x.op = r.op /\ x.ids = r.ids /\ x.answer = answer => AnswerHolds(x)'
  <2>1. CASE reached /\ heard
    <3>1. page'.stored = StoredBy(r) /\ answer = AnswerTo(r)
      BY <1>4, <2>1 DEF stored
    <3> HIDE DEF answer
    <3>2. AnswerTo(r) \in NoteAnswers
          /\ \A x : x.op = r.op /\ x.ids = r.ids /\ x.answer = AnswerTo(r) => AnswerHolds(x)'
      BY <1>3, <1>5, <3>1, AnsweredByServer
    <3> QED
      BY <3>1, <3>2
  <2>2. CASE ~(reached /\ heard)
    <3>1. answer = [ok |-> FALSE]
      BY <2>2
    <3> HIDE DEF answer
    <3>2. ~answer.ok /\ answer \in [ok : BOOLEAN]
      BY <3>1
    <3> QED
      BY <3>2 DEF AnswerHolds, NoteAnswers
  <2> QED
    BY <2>1, <2>2
<1> HIDE DEF answer
<1>10. q \in NoteAsks /\ q.op = r.op /\ q.ids = r.ids /\ q.answer = answer
  <2>1. \A x \in NoteAsks, y \in NoteAnswers : LET z == [x EXCEPT !.answer = y] IN
          z \in NoteAsks /\ z.op = x.op /\ z.ids = x.ids /\ z.answer = y
    BY DEF NoteAsks
  <2> QED
    BY <1>3, <1>9, <2>1 DEF q
<1>11. /\ asked \in Seq(NoteAsks) /\ DOMAIN asked = DOMAIN page.asked
       /\ \A j \in DOMAIN page.asked : asked[j] = IF j = k THEN q ELSE page.asked[j]
  BY <1>3, <1>10 DEF asked
<1>12. NotesTyped'
  BY <1>4, <1>5, <1>6, <1>11 DEF NotesInv, NotesTyped
<1>13. MadeOnly'
  BY <1>3, <1>4, <1>5, <1>6, <1>7, <1>10, <1>11 DEF NotesInv, MadeOnly
<1>14. AnswersHold'
  <2>0. PICK z : z = q
    OBVIOUS
  <2>1. AnswerHolds(z)'
    BY <1>9, <1>10, <2>0
  <2>2. \A j \in DOMAIN page.asked : AnswerHolds(page.asked[j])
    BY DEF NotesInv, AnswersHold
  <2>3. ASSUME NEW j \in DOMAIN page.asked PROVE \E x : x = asked[j] /\ AnswerHolds(x)'
    BY <1>8, <1>11, <2>0, <2>1, <2>2
  <2>4. \A j \in DOMAIN page'.asked : \E x : x = page'.asked[j] /\ AnswerHolds(x)'
    BY <1>4, <1>11, <2>3
  <2> QED
    BY <2>4 DEF AnswersHold
<1>15. ReadSettled'
  BY <1>5, <1>8 DEF NotesInv, ReadSettled
<1> QED
  BY <1>12, <1>13, <1>14, <1>15 DEF NotesInv

LEMMA NoteAnsweredStep ==
  ASSUME NotesInv, NEW k \in DOMAIN page.asked, NoteAnswered(k)
  PROVE  NotesInv'
<1> DEFINE r == page.asked[k]
           f == NoteShown(r)
           left == RemoveAt(page.asked, k)
           c == NoteAsk("count", {}, 0)
           more == IF r.op = "list" /\ page.view = "bar" /\ Succeeded(r) THEN <<c>> ELSE <<>>
           asked == left \o more
           list == IF "list" \in DOMAIN f THEN f.list ELSE page.list
           swept == IF "swept" \in DOMAIN f THEN f.swept ELSE page.swept
<1>1. r.answer # None /\ Change(f ++ [asked |-> asked])
  BY DEF NoteAnswered
<1>2. /\ page.asked \in Seq(NoteAsks) /\ r \in NoteAsks /\ DOMAIN page = NoteFields
      /\ AnswerHolds(r) /\ page.selected \subseteq Made
      /\ \A j \in DOMAIN page.asked : page.asked[j].ids \subseteq Made /\ AnswerHolds(page.asked[j])
  BY DEF NotesInv, NotesTyped, MadeOnly, AnswersHold
<1>3. /\ DOMAIN f \subseteq {"list", "unread", "loading", "busy", "swept", "selected"}
      /\ "selected" \in DOMAIN f => f.selected = {}
      /\ list \in Seq(Rows)
      /\ \A j \in DOMAIN list : list[j].id \in Made /\ (list[j].read => Settled(list[j].id) \/ list[j].id \in swept)
  BY <1>1, <1>2, NoteShownSettled
<1>4. c \in NoteAsks /\ c.ids = {} /\ c.answer = None
  BY DEF NoteAsk, NoteAsks, NoteAnswers
<1>5. left \in Seq(NoteAsks) /\ \A i \in DOMAIN left : \E j \in DOMAIN page.asked : left[i] = page.asked[j]
  <2>1. /\ left \in Seq(NoteAsks) /\ Len(left) = Len(page.asked) - 1
        /\ \A i \in DOMAIN left : left[i] = IF i < k THEN page.asked[i] ELSE page.asked[i + 1]
    BY <1>2, RemovedAt
  <2> HIDE DEF left
  <2> QED
    BY <1>2, <2>1
<1> HIDE DEF left, c, f, r
<1>6. more = <<c>> \/ more = <<>>
  OBVIOUS
<1> HIDE DEF more
<1>7. /\ asked \in Seq(NoteAsks)
      /\ \A i \in DOMAIN asked : (i \in DOMAIN left /\ asked[i] = left[i]) \/ asked[i] = c
  <2>1. CASE more = <<>>
    <3>1. asked = left
      BY <1>5, <2>1
    <3> QED
      BY <1>5, <3>1
  <2>2. CASE more = <<c>>
    <3>1. asked = Append(left, c)
      BY <1>4, <1>5, <2>2
    <3> HIDE DEF asked
    <3> QED
      BY <1>4, <1>5, <3>1
  <2> QED
    BY <1>6, <2>1, <2>2
<1> HIDE DEF asked
<1>8. \A i \in DOMAIN asked : asked[i].ids \subseteq Made /\ AnswerHolds(asked[i])
  BY <1>2, <1>4, <1>5, <1>7 DEF AnswerHolds
<1>9. /\ DOMAIN page' = NoteFields /\ page'.list = list /\ page'.swept = swept /\ page'.asked = asked
      /\ page'.selected = IF "selected" \in DOMAIN f THEN f.selected ELSE page.selected
      /\ Same({"made", "stored", "pushes"})
  BY <1>1, <1>2, <1>3 DEF Change, ++, Same, NoteFields
<1> HIDE DEF list, swept
<1>10. page'.selected \subseteq Made
  BY <1>2, <1>3, <1>9
<1> QED
  BY <1>3, <1>7, <1>8, <1>9, <1>10, NotesViewed

LEMMA NotifiedStep ==
  ASSUME NotesInv, Notified
  PROVE  NotesInv'
<1> DEFINE n == page.made + 1
<1>1. PICK kind \in {"start", "end", "failed"} :
        Change([made |-> n, pushes |-> Append(page.pushes, [id |-> n, kind |-> kind]),
                stored |-> IF kind = "start" THEN [page.stored EXCEPT ![n] = "unread"] ELSE page.stored])
  BY DEF Notified
<1> DEFINE p == [id |-> n, kind |-> kind]
           pushes == Append(page.pushes, p)
           stored == IF kind = "start" THEN [page.stored EXCEPT ![n] = "unread"] ELSE page.stored
<1>2. /\ DOMAIN page = NoteFields /\ page.made \in Notes /\ page.made < MaxNotes
      /\ page.stored \in [Notes -> {"none", "unread", "read"}]
      /\ page.pushes \in Seq([id : Notes, kind : {"start", "end", "failed"}])
      /\ \A m \in Notes \ Made : page.stored[m] = "none"
      /\ \A k \in DOMAIN page.pushes : page.pushes[k].id \in Made
  BY DEF NotesInv, NotesTyped, MadeOnly, Notified
<1>3. n \in Notes /\ page.made \in Nat /\ n \notin Made
  <2>1. page.made \in Nat /\ MaxNotes \in Nat
    BY <1>2, NotesKnown
  <2>2. n \in Nat /\ 1 <= n /\ n <= MaxNotes /\ ~ (n <= page.made)
    BY <1>2, <2>1
  <2>3. n \in Notes
    BY <2>2, NotesKnown
  <2> HIDE DEF n
  <2> QED
    BY <2>1, <2>2, <2>3 DEF Made
<1>4. stored \in [Notes -> {"none", "unread", "read"}] /\ \A m \in Notes : m # n => stored[m] = page.stored[m]
  BY <1>2, <1>3
<1>5. p \in [id : Notes, kind : {"start", "end", "failed"}] /\ p.id = n
  BY <1>3
<1> HIDE DEF p, stored
<1>6. /\ pushes \in Seq([id : Notes, kind : {"start", "end", "failed"}])
      /\ \A k \in DOMAIN pushes : (k \in DOMAIN page.pushes /\ pushes[k] = page.pushes[k]) \/ pushes[k] = p
  BY <1>2, <1>5
<1> HIDE DEF pushes
<1>7. Change([made |-> n, pushes |-> pushes, stored |-> stored])
  BY <1>1 DEF pushes, stored, p
<1>8. /\ DOMAIN page' = NoteFields /\ page'.made = n /\ page'.pushes = pushes /\ page'.stored = stored
      /\ page'.list = page.list /\ page'.selected = page.selected /\ page'.swept = page.swept /\ page'.asked = page.asked
  BY <1>2, <1>7 DEF Change, NoteFields
<1>9. Made' = {m \in Notes : m <= n}
  BY <1>8 DEF Made
<1>10. /\ Made \subseteq Made' /\ (\A m : Settled(m) => Settled(m)') /\ \A x : AnswerHolds(x) => AnswerHolds(x)'
  <2>1. \A m \in Made : page'.stored[m] = page.stored[m]
    BY <1>3, <1>4, <1>8 DEF Made
  <2>2. page'.made >= page.made /\ page'.made \in Notes
    BY <1>3, <1>8
  <2> QED
    BY <2>1, <2>2, StaysSettled
<1>11. n \in Made' /\ \A m \in Notes \ Made' : m \in Notes \ Made /\ m # n
  BY <1>3, <1>9, <1>10, NotesKnown
<1>12. NotesTyped'
  BY <1>3, <1>4, <1>6, <1>8 DEF NotesInv, NotesTyped
<1>13. MadeOnly'
  <2>1. \A m \in Notes \ Made' : page'.stored[m] = "none"
    BY <1>2, <1>4, <1>8, <1>11
  <2>2. \A k \in DOMAIN page'.pushes : page'.pushes[k].id \in Made'
    BY <1>2, <1>5, <1>6, <1>8, <1>10, <1>11
  <2> QED
    BY <1>8, <1>10, <2>1, <2>2 DEF NotesInv, MadeOnly
<1> QED
  BY <1>8, <1>10, <1>12, <1>13 DEF NotesInv, AnswersHold, ReadSettled

LEMMA PushedStep ==
  ASSUME NotesInv, Pushed
  PROVE  NotesInv'
<1> DEFINE h == Head(page.pushes)
<1>1. PICK rows \in {<<>>, Added(h)} :
        Change([pushes |-> Tail(page.pushes), list |-> rows \o page.list, unread |-> page.unread + Len(rows)])
  BY DEF Pushed
<1>2. /\ DOMAIN page = NoteFields /\ page.list \in Seq(Rows)
      /\ page.pushes \in Seq([id : Notes, kind : {"start", "end", "failed"}]) /\ page.pushes # <<>>
      /\ \A k \in DOMAIN page.pushes : page.pushes[k].id \in Made
  BY DEF NotesInv, NotesTyped, MadeOnly, Pushed
<1>3. h.id \in Made /\ h.id \in Notes
  <2>1. 1 \in DOMAIN page.pushes /\ h = page.pushes[1]
    BY <1>2
  <2> QED
    BY <1>2, <2>1 DEF Made
<1> HIDE DEF h
<1>4. rows \in Seq(Rows) /\ \A k \in DOMAIN rows : rows[k].id = h.id /\ rows[k].read = FALSE
  <2> DEFINE w == Row(h.id, FALSE)
  <2>1. w \in Rows /\ w.id = h.id /\ w.read = FALSE
    BY <1>3 DEF Row, Rows
  <2>2. Times(h.kind) \in Nat
    BY DEF Times
  <2>3. rows = <<>> \/ rows = [k \in 1 .. Times(h.kind) |-> w]
    BY DEF Added
  <2> HIDE DEF w
  <2>4. [k \in 1 .. Times(h.kind) |-> w] \in Seq(Rows)
    BY <2>1, <2>2
  <2>5. CASE rows = <<>>
    BY <2>5
  <2>6. CASE rows = [k \in 1 .. Times(h.kind) |-> w]
    <3>1. DOMAIN rows = 1 .. Times(h.kind) /\ \A k \in DOMAIN rows : rows[k] = w
      BY <2>6
    <3> QED
      BY <2>1, <2>4, <2>6, <3>1
  <2> QED
    BY <2>3, <2>5, <2>6
<1> DEFINE list == rows \o page.list
<1>5. /\ list \in Seq(Rows)
      /\ \A k \in DOMAIN list : \/ k \in DOMAIN rows /\ list[k] = rows[k]
                                \/ \E j \in DOMAIN page.list : list[k] = page.list[j]
  <2>1. Len(list) = Len(rows) + Len(page.list) /\ list \in Seq(Rows)
        /\ \A k \in 1 .. Len(list) : list[k] = IF k <= Len(rows) THEN rows[k] ELSE page.list[k - Len(rows)]
    BY <1>2, <1>4
  <2>2. Len(rows) \in Nat /\ Len(page.list) \in Nat /\ DOMAIN rows = 1 .. Len(rows) /\ DOMAIN page.list = 1 .. Len(page.list)
    BY <1>2, <1>4
  <2> HIDE DEF list
  <2>3. \A k \in 1 .. Len(list) : k \in 1 .. Len(rows) \/ (~(k <= Len(rows)) /\ k - Len(rows) \in 1 .. Len(page.list))
    BY <2>1, <2>2
  <2>4. DOMAIN list = 1 .. Len(list)
    BY <2>1
  <2>5. ASSUME NEW k \in 1 .. Len(list)
        PROVE  (k \in DOMAIN rows /\ list[k] = rows[k]) \/ \E j \in DOMAIN page.list : list[k] = page.list[j]
    <3>1. CASE k \in 1 .. Len(rows)
      BY <2>1, <2>2, <3>1
    <3>2. CASE ~(k <= Len(rows)) /\ k - Len(rows) \in 1 .. Len(page.list)
      <4>1. list[k] = page.list[k - Len(rows)]
        BY <2>1, <3>2
      <4> QED
        BY <2>2, <3>2, <4>1
    <3> QED
      BY <2>3, <3>1, <3>2
  <2> QED
    BY <2>1, <2>4, <2>5
<1> DEFINE tail == Tail(page.pushes)
<1>6. /\ tail \in Seq([id : Notes, kind : {"start", "end", "failed"}])
      /\ \A k \in DOMAIN tail : tail[k] = page.pushes[k + 1] /\ k + 1 \in DOMAIN page.pushes
  BY <1>2
<1> HIDE DEF list, tail
<1>7. /\ DOMAIN page' = NoteFields /\ page'.list = list /\ page'.pushes = tail
      /\ page'.made = page.made /\ page'.stored = page.stored
      /\ page'.selected = page.selected /\ page'.swept = page.swept /\ page'.asked = page.asked
  <2>1. Change([pushes |-> tail, list |-> list, unread |-> page.unread + Len(rows)])
    BY <1>1 DEF list, tail
  <2> QED
    BY <1>2, <2>1 DEF Change, NoteFields
<1>8. Made' = Made /\ (\A n : Settled(n)' = Settled(n)) /\ \A q : AnswerHolds(q) => AnswerHolds(q)'
  <2>1. Made' = Made /\ \A n : Settled(n)' = Settled(n)
    BY <1>7 DEF Made, Settled
  <2> QED
    BY <2>1 DEF AnswerHolds, RowsSettled
<1>9. NotesTyped'
  BY <1>5, <1>6, <1>7 DEF NotesInv, NotesTyped
<1>10. MadeOnly'
  <2>1. \A k \in DOMAIN list : list[k].id \in Made
    BY <1>3, <1>4, <1>5 DEF NotesInv, MadeOnly
  <2>2. \A k \in DOMAIN tail : tail[k].id \in Made
    BY <1>2, <1>6
  <2> QED
    BY <1>7, <1>8, <2>1, <2>2 DEF NotesInv, MadeOnly
<1>11. ReadSettled'
  <2>1. \A k \in DOMAIN list : list[k].read => Settled(list[k].id) \/ list[k].id \in page.swept
    BY <1>4, <1>5 DEF NotesInv, ReadSettled
  <2> QED
    BY <1>7, <1>8, <2>1 DEF ReadSettled
<1> QED
  BY <1>7, <1>8, <1>9, <1>10, <1>11 DEF NotesInv, AnswersHold

\* What the filter shows is made.
LEMMA FilteredMade == NotesInv => Ids(Filtered) \subseteq Made
<1> SUFFICES ASSUME NotesInv PROVE Ids(Filtered) \subseteq Made
  OBVIOUS
<1>1. \A K : \A k \in DOMAIN Keep(page.list, K) : Keep(page.list, K)[k].id \in Made
  BY RowsLeft DEF NotesInv, MadeOnly
<1> QED
  BY <1>1 DEF Ids, Filtered, NotesInv, MadeOnly

LEMMA NotesStep ==
  ASSUME On("notifications"), NotesInv, NotesNext
  PROVE  NotesInv'
<1>1. /\ DOMAIN page = NoteFields /\ page.selected \subseteq Made /\ page.asked \in Seq(NoteAsks)
      /\ page.list \in Seq(Rows) /\ \A k \in DOMAIN page.list : page.list[k].id \in Made
  BY DEF NotesInv, NotesTyped, MadeOnly
<1>2. CASE MarkAllAsRead
  <2> DEFINE fields == [busy |-> TRUE]
  <2>1. Ask("markAll", {}, 0, fields) /\ DOMAIN fields \subseteq {"busy"}
    BY <1>2 DEF MarkAllAsRead
  <2> HIDE DEF fields
  <2> QED
    BY <2>1, NoteAsked
<1>3. CASE ClearAll
  <2> DEFINE fields == [busy |-> TRUE]
  <2>1. Ask("clear", {}, 0, fields) /\ DOMAIN fields \subseteq {"busy"}
    BY <1>3 DEF ClearAll
  <2> HIDE DEF fields
  <2> QED
    BY <2>1, NoteAsked
<1>4. CASE DeleteSelected
  <2> DEFINE seen == Unread(Shown(page.selected))
  <2>1. seen \in Nat
    <3>1. Shown(page.selected) \in Seq(Rows)
      BY RowsLeft DEF Shown
    <3>2. Keep(Shown(page.selected), {r \in ToSet(Shown(page.selected)) : ~r.read}) \in Seq(Rows)
      BY <3>1, KeepIn
    <3> QED
      BY <3>2 DEF Unread
  <2>2. Ask("bulk", page.selected, seen, <<>>) /\ DOMAIN <<>> \subseteq {"busy"}
    BY <1>4 DEF DeleteSelected
  <2> HIDE DEF seen
  <2> QED
    BY <1>1, <2>1, <2>2, NoteAsked
<1>5. ASSUME NEW n \in Notes, MarkAsRead(n) PROVE NotesInv'
  <2>1. n \in Made
    BY <1>1, <1>5 DEF MarkAsRead, Listing, ToSet
  <2>2. Ask("mark", {n}, 0, <<>>) /\ DOMAIN <<>> \subseteq {"busy"}
    BY <1>5 DEF MarkAsRead
  <2> QED
    BY <2>1, <2>2, NoteAsked
<1>6. ASSUME NEW n \in Notes, DeleteNotification(n) PROVE NotesInv'
  <2> DEFINE seen == IF Head(Shown({n})).read THEN 0 ELSE 1
  <2>1. n \in Made
    BY <1>1, <1>6 DEF DeleteNotification, Ids
  <2>2. Ask("delete", {n}, seen, <<>>) /\ DOMAIN <<>> \subseteq {"busy"} /\ seen \in Nat
    BY <1>6 DEF DeleteNotification
  <2> HIDE DEF seen
  <2> QED
    BY <2>1, <2>2, NoteAsked
<1>7. CASE ToggleSelectAll \/ SetFilter \/ \E n \in Notes : ToggleSelection(n)
  <2>1. \/ \E f : Click([onlyUnread |-> f])
        \/ \E s : s \subseteq Made /\ Click([selected |-> s])
    <3>1. CASE SetFilter
      BY <3>1 DEF SetFilter
    <3>2. CASE ToggleSelectAll
      <4>1. (IF Cardinality(page.selected) = Len(Filtered) THEN {} ELSE Ids(Filtered)) \subseteq Made
        BY FilteredMade
      <4> QED
        BY <3>2, <4>1 DEF ToggleSelectAll
    <3>3. ASSUME NEW n \in Notes, ToggleSelection(n) PROVE \E s : s \subseteq Made /\ Click([selected |-> s])
      <4> DEFINE s == IF n \in page.selected THEN page.selected \ {n} ELSE page.selected \cup {n}
      <4>1. Click([selected |-> s]) /\ n \in Ids(Filtered)
        BY <3>3 DEF ToggleSelection
      <4>2. s \subseteq Made
        BY <1>1, <4>1, FilteredMade
      <4> HIDE DEF s
      <4> QED
        BY <4>1, <4>2
    <3> QED
      BY <1>7, <3>1, <3>2, <3>3
  <2>2. /\ DOMAIN page' = NoteFields /\ page'.selected \subseteq Made
        /\ Same(NoteFields \ {"selected", "onlyUnread", "clicks"})
    <3>1. CASE \E f : Click([onlyUnread |-> f])
      BY <1>1, <3>1 DEF Click, Change, ++, Same, NoteFields
    <3>2. CASE \E s : s \subseteq Made /\ Click([selected |-> s])
      BY <1>1, <3>2 DEF Click, Change, ++, Same, NoteFields
    <3> QED
      BY <2>1, <3>1, <3>2
  <2>3. page'.list = page.list /\ page'.swept = page.swept /\ page'.asked = page.asked
        /\ Same({"made", "stored", "pushes"})
    BY <2>2 DEF Same, NoteFields
  <2>4. /\ \A k \in DOMAIN page.list : page.list[k].read => Settled(page.list[k].id) \/ page.list[k].id \in page.swept
        /\ \A k \in DOMAIN page.asked : page.asked[k].ids \subseteq Made /\ AnswerHolds(page.asked[k])
    BY DEF NotesInv, MadeOnly, AnswersHold, ReadSettled
  <2> QED
    BY <1>1, <2>2, <2>3, <2>4, NotesViewed
<1> QED
  BY <1>2, <1>3, <1>4, <1>5, <1>6, <1>7, NotifiedStep, PushedStep, NoteHandledStep, NoteAnsweredStep DEF NotesNext

-----------------------------------------------------------------------------
(* The order of a list *)

\* Before orders the items of A.
Orders(kind, by, A) ==
  /\ \A i, j \in A : Before(kind, by, i, j) => ~Before(kind, by, j, i)
  /\ \A i, j, k \in A : Before(kind, by, i, j) /\ Before(kind, by, j, k) => Before(kind, by, i, k)
\* No item of t is before an earlier one.
InOrder(kind, by, t) == \A k \in DOMAIN t : \A j \in 1 .. (k - 1) : ~Before(kind, by, t[k], t[j])

\* An item put into a list in order leaves it in order.
LEMMA InsertedInOrder ==
  ASSUME NEW A, NEW kind, NEW by, Orders(kind, by, A),
         NEW s \in Seq(A), InOrder(kind, by, s), NEW x \in A
  PROVE  LET t == Inserted(kind, by, s, x) IN
           t \in Seq(A) /\ Len(t) = Len(s) + 1 /\ InOrder(kind, by, t) /\ ToSet(t) = ToSet(s) \cup {x}
<1> DEFINE later == {k \in DOMAIN s : Before(kind, by, x, s[k])}
           p == IF later = {} THEN Len(s) + 1 ELSE Min(later)
           t == InsertAt(s, p, x)
<1>1. Inserted(kind, by, s, x) = t
  BY DEF Inserted
<1>2. Len(s) \in Nat /\ DOMAIN s = 1 .. Len(s) /\ \A k \in 1 .. Len(s) : s[k] \in A
  OBVIOUS
<1>3. /\ p \in 1 .. (Len(s) + 1)
      /\ \A k \in 1 .. Len(s) : k < p => ~Before(kind, by, x, s[k])
      /\ p <= Len(s) => Before(kind, by, x, s[p])
  <2>1. CASE later = {}
    BY <1>2, <2>1
  <2>2. CASE later # {}
    <3>1. later \subseteq 1 .. Len(s) /\ later \subseteq Nat
      BY <1>2
    <3>2. \E m \in later : \A y \in later : m <= y
      <4> HIDE DEF later
      <4> QED
        BY <2>2, <3>1, LeastNumber
    <3>3. p \in later /\ \A y \in later : p <= y
      <4>1. p = CHOOSE m \in later : \A y \in later : m <= y
        BY <2>2 DEF Min
      <4> HIDE DEF later, p
      <4> QED
        BY <3>2, <4>1
    <3>4. \A k \in 1 .. Len(s) : Before(kind, by, x, s[k]) => k \in later
      BY <1>2
    <3>5. \A k \in later : k \in 1 .. Len(s) /\ Before(kind, by, x, s[k])
      BY <1>2
    <3> HIDE DEF later, p
    <3> QED
      BY <1>2, <3>3, <3>4, <3>5
  <2> QED
    BY <2>1, <2>2
<1> HIDE DEF later, p
<1>4. /\ t \in Seq(A) /\ Len(t) = Len(s) + 1
      /\ \A i \in 1 .. (Len(s) + 1) : t[i] = IF i < p THEN s[i] ELSE IF i = p THEN x ELSE s[i - 1]
  BY <1>3, InsertedAt
<1> HIDE DEF t
<1>5. DOMAIN t = 1 .. (Len(s) + 1)
  BY <1>4
<1>6. \A k \in 1 .. Len(s) : \A j \in 1 .. (k - 1) : ~Before(kind, by, s[k], s[j])
  BY <1>2 DEF InOrder
\* What is behind the new item is not before it: it is the item it was put before, or
\* behind that one.
<1>7. ASSUME NEW k \in 1 .. Len(s), k >= p PROVE ~Before(kind, by, s[k], x)
  <2>1. Before(kind, by, x, s[p]) /\ p \in 1 .. Len(s)
    BY <1>2, <1>3, <1>7
  <2>2. s[k] \in A /\ s[p] \in A
    BY <1>2, <2>1
  <2>3. CASE k = p
    BY <2>1, <2>2, <2>3 DEF Orders
  <2>4. CASE k # p
    <3>1. p \in 1 .. (k - 1)
      BY <1>2, <1>7, <2>1, <2>4
    <3>2. ~Before(kind, by, s[k], s[p])
      BY <1>6, <3>1
    <3> QED
      BY <2>1, <2>2, <3>2 DEF Orders
  <2> QED
    BY <2>3, <2>4
<1>8. ASSUME NEW k \in 1 .. (Len(s) + 1), NEW j \in 1 .. (k - 1) PROVE ~Before(kind, by, t[k], t[j])
  <2>1. j \in 1 .. (Len(s) + 1) /\ j < k
    BY <1>2
  <2>2. CASE k < p
    <3>1. t[k] = s[k] /\ t[j] = s[j] /\ k \in 1 .. Len(s)
      BY <1>2, <1>3, <1>4, <2>1, <2>2
    <3> QED
      BY <1>6, <3>1
  <2>3. CASE k = p
    <3>1. t[k] = x /\ t[j] = s[j] /\ j \in 1 .. Len(s) /\ j < p
      BY <1>2, <1>3, <1>4, <2>1, <2>3
    <3> QED
      BY <1>3, <3>1
  <2>4. CASE k > p
    <3>1. t[k] = s[k - 1] /\ k - 1 \in 1 .. Len(s) /\ k - 1 >= p
      BY <1>2, <1>3, <1>4, <2>1, <2>4
    <3>2. CASE j = p
      BY <1>4, <1>7, <2>1, <3>1, <3>2
    <3>3. CASE j < p
      <4>1. t[j] = s[j] /\ j \in 1 .. ((k - 1) - 1)
        BY <1>2, <1>3, <1>4, <2>1, <2>4, <3>3
      <4> QED
        BY <1>6, <3>1, <4>1
    <3>4. CASE j > p
      <4>1. t[j] = s[j - 1] /\ j - 1 \in 1 .. ((k - 1) - 1)
        BY <1>2, <1>3, <1>4, <2>1, <3>4
      <4> QED
        BY <1>6, <3>1, <4>1
    <3> QED
      BY <1>3, <2>1, <3>2, <3>3, <3>4
  <2> QED
    BY <1>2, <1>3, <2>2, <2>3, <2>4
<1>9. ToSet(t) = ToSet(s) \cup {x}
  <2>1. ASSUME NEW i \in 1 .. (Len(s) + 1) PROVE t[i] \in ToSet(s) \cup {x}
    <3>1. CASE i < p
      <4>1. i \in DOMAIN s /\ t[i] = s[i]
        BY <1>2, <1>3, <1>4, <3>1
      <4> QED
        BY <4>1 DEF ToSet
    <3>2. CASE i = p
      BY <1>3, <1>4, <3>2
    <3>3. CASE i > p
      <4>1. i - 1 \in DOMAIN s /\ t[i] = s[i - 1]
        BY <1>2, <1>3, <1>4, <3>3
      <4> QED
        BY <4>1 DEF ToSet
    <3> QED
      BY <1>3, <3>1, <3>2, <3>3
  <2>2. ASSUME NEW i \in DOMAIN s PROVE s[i] \in ToSet(t)
    <3>1. CASE i < p
      <4>1. i \in DOMAIN t /\ t[i] = s[i]
        BY <1>2, <1>3, <1>4, <1>5, <3>1
      <4> QED
        BY <4>1 DEF ToSet
    <3>2. CASE i >= p
      <4>1. i + 1 \in DOMAIN t /\ i + 1 > p /\ (i + 1) - 1 = i
        BY <1>2, <1>3, <1>5, <3>2
      <4>2. t[i + 1] = s[i]
        BY <1>3, <1>4, <1>5, <4>1
      <4> QED
        BY <4>1, <4>2 DEF ToSet
    <3> QED
      BY <1>2, <1>3, <3>1, <3>2
  <2>3. x \in ToSet(t)
    BY <1>3, <1>4, <1>5 DEF ToSet
  <2> QED
    BY <1>5, <2>1, <2>2, <2>3 DEF ToSet
<1> QED
  BY <1>1, <1>4, <1>5, <1>8, <1>9 DEF InOrder, t

\* The recursion of Sorted has a solution.
LEMMA SortedDefined ==
  ASSUME NEW A, NEW s \in Seq(A), NEW kind, NEW by
  PROVE  \E f : /\ DOMAIN f = 0 .. Len(s)
                /\ f = [k \in 0 .. Len(s) |->
                     IF k = 0 THEN <<>> ELSE Inserted(kind, by, f[k - 1], s[k])]
                /\ Sorted(kind, by, s) = f[Len(s)]
<1> DEFINE Longer(f, k) == Inserted(kind, by, f[k - 1], s[k])
           Sol(f, n) == DOMAIN f = 0 .. n /\ f[0] = <<>> /\ \A k \in 1 .. n : f[k] = Longer(f, k)
           S == {n \in Nat : \E f : Sol(f, n)}
<1>1. 0 \in S
  <2>1. Sol([k \in 0 .. 0 |-> <<>>], 0)
    OBVIOUS
  <2> QED
    BY <2>1
<1>2. ASSUME NEW n \in Nat, n \in S PROVE n + 1 \in S
  <2>1. PICK f : Sol(f, n)
    BY <1>2
  <2> DEFINE v == Inserted(kind, by, f[n], s[n + 1])
             g == [k \in 0 .. (n + 1) |-> IF k = n + 1 THEN v ELSE f[k]]
  <2>2. DOMAIN g = 0 .. (n + 1) /\ g[n + 1] = v /\ \A k \in 0 .. n : g[k] = f[k]
    OBVIOUS
  <2> HIDE DEF g
  <2>3. \A k \in 1 .. n : g[k] = Longer(g, k)
    <3>1. ASSUME NEW k \in 1 .. n PROVE g[k] = Longer(g, k)
      <4>1. k \in 0 .. n /\ k - 1 \in 0 .. n
        BY <3>1
      <4>2. g[k] = f[k] /\ g[k - 1] = f[k - 1]
        BY <2>2, <4>1
      <4>3. f[k] = Longer(f, k)
        BY <2>1, <3>1
      <4> QED
        BY <4>2, <4>3
    <3> QED
      BY <3>1
  <2>4. g[n + 1] = Longer(g, n + 1)
    BY <2>2
  <2>5. \A k \in 1 .. (n + 1) : k \in 1 .. n \/ k = n + 1
    OBVIOUS
  <2>6. g[0] = <<>>
    BY <2>1, <2>2
  <2> HIDE DEF v, Longer
  <2>7. Sol(g, n + 1)
    BY <2>2, <2>3, <2>4, <2>5, <2>6
  <2> HIDE DEF Sol
  <2> QED
    BY <2>7
<1>3. Len(s) \in S
  <2> HIDE DEF S
  <2> QED
    BY <1>1, <1>2, SetInduction
<1>4. PICK f : Sol(f, Len(s))
  BY <1>3
<1> DEFINE Rec(h) == h = [k \in 0 .. Len(s) |->
                     IF k = 0 THEN <<>> ELSE Inserted(kind, by, h[k - 1], s[k])]
           r == [k \in 0 .. Len(s) |->
                     IF k = 0 THEN <<>> ELSE Inserted(kind, by, f[k - 1], s[k])]
<1>5. Rec(r)
  <2>1. ASSUME NEW k \in 0 .. Len(s) PROVE r[k] = f[k]
    <3>1. CASE k = 0
      BY <1>4, <3>1
    <3>2. CASE k # 0
      <4>1. k \in 1 .. Len(s)
        BY <3>2
      <4>2. f[k] = Longer(f, k)
        BY <1>4, <4>1
      <4> QED
        BY <3>2, <4>2
    <3> QED
      BY <3>1, <3>2
  <2>2. \A k \in 1 .. Len(s) : k - 1 \in 0 .. Len(s)
    OBVIOUS
  <2>3. \A k \in 1 .. Len(s) : r[k - 1] = f[k - 1]
    BY <2>1, <2>2
  <2>4. DOMAIN r = 0 .. Len(s) /\ r = [k \in 0 .. Len(s) |-> r[k]]
    OBVIOUS
  <2>5. \A k \in 0 .. Len(s) : r[k] = IF k = 0 THEN <<>> ELSE Inserted(kind, by, f[k - 1], s[k])
    OBVIOUS
  <2>6. \A k \in 0 .. Len(s) : k = 0 \/ k \in 1 .. Len(s)
    OBVIOUS
  <2> HIDE DEF r
  <2>7. \A k \in 0 .. Len(s) : r[k] = IF k = 0 THEN <<>> ELSE Inserted(kind, by, r[k - 1], s[k])
    BY <2>3, <2>5, <2>6
  <2> QED
    BY <2>4, <2>7
<1> DEFINE c == CHOOSE h : Rec(h)
<1>6. Rec(c)
  <2> HIDE DEF Rec
  <2> QED
    BY <1>5
<1>7. Sorted(kind, by, s) = c[Len(s)]
  BY DEF Sorted
<1>8. DOMAIN c = 0 .. Len(s)
  BY <1>6
<1> HIDE DEF c
<1> QED
  BY <1>6, <1>7, <1>8

\* Sorting puts a list in order and has the same items.
LEMMA SortedInOrder ==
  ASSUME NEW A, NEW kind, NEW by, Orders(kind, by, A), NEW s \in Seq(A)
  PROVE  LET t == Sorted(kind, by, s) IN
           t \in Seq(A) /\ InOrder(kind, by, t) /\ ToSet(t) = ToSet(s)
<1>1. PICK f : /\ DOMAIN f = 0 .. Len(s)
               /\ f = [k \in 0 .. Len(s) |-> IF k = 0 THEN <<>> ELSE Inserted(kind, by, f[k - 1], s[k])]
               /\ Sorted(kind, by, s) = f[Len(s)]
  BY SortedDefined
<1>2. Len(s) \in Nat /\ DOMAIN s = 1 .. Len(s) /\ \A k \in 1 .. Len(s) : s[k] \in A
  OBVIOUS
<1> DEFINE P(k) == f[k] \in Seq(A) /\ InOrder(kind, by, f[k]) /\ ToSet(f[k]) = {s[j] : j \in 1 .. k}
           S == {k \in Nat : k <= Len(s) => P(k)}
<1>3. f[0] = <<>>
  <2>1. 0 \in 0 .. Len(s)
    BY <1>2
  <2> QED
    BY <1>1, <2>1
<1>4. 0 \in S
  <2>1. <<>> \in Seq(A) /\ DOMAIN <<>> = {} /\ 1 .. 0 = {}
    OBVIOUS
  <2>2. P(0)
    BY <1>3, <2>1 DEF InOrder, ToSet
  <2> HIDE DEF P
  <2> QED
    BY <2>2
<1>5. ASSUME NEW n \in Nat, n \in S PROVE n + 1 \in S
  <2> SUFFICES ASSUME n + 1 <= Len(s) PROVE P(n + 1)
    OBVIOUS
  <2>1. P(n)
    BY <1>2, <1>5
  <2>2. f[n + 1] = Inserted(kind, by, f[n], s[n + 1])
    <3>1. n + 1 \in 0 .. Len(s) /\ n + 1 # 0 /\ (n + 1) - 1 = n
      BY <1>2
    <3> QED
      BY <1>1, <3>1
  <2>3. s[n + 1] \in A
    BY <1>2
  <2>4. f[n + 1] \in Seq(A) /\ InOrder(kind, by, f[n + 1]) /\ ToSet(f[n + 1]) = ToSet(f[n]) \cup {s[n + 1]}
    <3> DEFINE g == f[n]  x == s[n + 1]  t == Inserted(kind, by, g, x)
    <3>1. g \in Seq(A) /\ InOrder(kind, by, g) /\ x \in A /\ f[n + 1] = t
      BY <2>1, <2>2, <2>3
    <3> HIDE DEF g, x
    <3>2. t \in Seq(A) /\ InOrder(kind, by, t) /\ ToSet(t) = ToSet(g) \cup {x}
      BY <3>1, InsertedInOrder
    <3> HIDE DEF t
    <3> QED
      BY <3>1, <3>2 DEF g, x
  <2>5. {s[j] : j \in 1 .. (n + 1)} = {s[j] : j \in 1 .. n} \cup {s[n + 1]}
    <3>1. 1 .. (n + 1) = (1 .. n) \cup {n + 1}
      OBVIOUS
    <3> QED
      BY <3>1
  <2> QED
    BY <2>1, <2>4, <2>5
<1>6. P(Len(s))
  <2>1. Len(s) \in S
    <3> HIDE DEF S
    <3> QED
      BY <1>2, <1>4, <1>5, SetInduction
  <2> QED
    BY <1>2, <2>1
<1>7. ToSet(s) = {s[j] : j \in 1 .. Len(s)}
  BY <1>2 DEF ToSet
<1> DEFINE t == Sorted(kind, by, s)
<1>8. t = f[Len(s)]
  BY <1>1
<1>9. t \in Seq(A) /\ InOrder(kind, by, t) /\ ToSet(t) = ToSet(s)
  BY <1>6, <1>7, <1>8
<1> QED
  BY <1>9

\* Times, prices and whether a product is featured put the items of a list in an order.
LEMMA BeforeOrders ==
  ASSUME NEW kind \in Kinds, NEW by
  PROVE  Orders(kind, by, ToSet(Items[kind]))
<1> DEFINE A == ToSet(Items[kind])
<1>1. kind = "schedule" => \A i \in A : i.date \in Nat
  BY CatalogueAssumption DEF ToSet
<1>2. kind = "products" => \A i \in A : i.price \in Nat /\ i.featured \in BOOLEAN
  BY CatalogueAssumption DEF ToSet
<1> SUFFICES Orders(kind, by, A)
  OBVIOUS
<1> HIDE DEF A
<1>3. CASE kind = "schedule"
  <2>1. \A i, j : Before(kind, by, i, j) = (i.date > j.date)
    BY <1>3 DEF Before
  <2>2. ASSUME NEW i \in A, NEW j \in A, NEW k \in A
        PROVE  /\ i.date > j.date => ~(j.date > i.date)
               /\ i.date > j.date /\ j.date > k.date => i.date > k.date
    BY <1>1, <1>3
  <2> QED
    BY <2>1, <2>2 DEF Orders
<1>4. CASE kind = "products" /\ by = "price-low"
  <2>1. \A i, j : Before(kind, by, i, j) = (i.price < j.price)
    BY <1>4 DEF Before
  <2>2. ASSUME NEW i \in A, NEW j \in A, NEW k \in A
        PROVE  /\ i.price < j.price => ~(j.price < i.price)
               /\ i.price < j.price /\ j.price < k.price => i.price < k.price
    BY <1>2, <1>4
  <2> QED
    BY <2>1, <2>2 DEF Orders
<1>5. CASE kind = "products" /\ by = "price-high"
  <2>1. \A i, j : Before(kind, by, i, j) = (i.price > j.price)
    BY <1>5 DEF Before
  <2>2. ASSUME NEW i \in A, NEW j \in A, NEW k \in A
        PROVE  /\ i.price > j.price => ~(j.price > i.price)
               /\ i.price > j.price /\ j.price > k.price => i.price > k.price
    BY <1>2, <1>5
  <2> QED
    BY <2>1, <2>2 DEF Orders
<1>6. CASE kind = "products" /\ by = "featured"
  <2>1. \A i, j : Before(kind, by, i, j) = (i.featured /\ ~j.featured)
    BY <1>6 DEF Before
  <2> QED
    BY <1>2, <1>6, <2>1 DEF Orders
<1>7. CASE kind # "schedule" /\ ~(kind = "products" /\ by \in {"price-low", "price-high", "featured"})
  <2>1. \A i, j : Before(kind, by, i, j) = FALSE
    BY <1>7 DEF Before
  <2> QED
    BY <2>1 DEF Orders
<1> QED
  BY <1>3, <1>4, <1>5, <1>6, <1>7

\* What is shown of a list: the items found, in order.
LEMMA SearchedInOrder ==
  ASSUME NEW kind \in Kinds, NEW items \in Seq(ToSet(Items[kind])), NEW q, NEW choice, NEW by
  PROVE  LET t == Searched(kind, items, q, choice, by) IN
           /\ InOrder(kind, by, t)
           /\ ToSet(t) = {i \in ToSet(items) : Found(kind, i, q, choice)}
           /\ ToSet(items) \subseteq ToSet(Items[kind])
<1> DEFINE A == ToSet(Items[kind])
           K == {i \in ToSet(items) : Found(kind, i, q, choice)}
           kept == Keep(items, K)
<1>1. items \in Seq(A) /\ Orders(kind, by, A)
  BY BeforeOrders
<1>2. ToSet(items) \subseteq A
  <2> HIDE DEF A
  <2> QED
    BY <1>1 DEF ToSet
<1>3. K \subseteq ToSet(items)
  OBVIOUS
<1>4. Searched(kind, items, q, choice, by) = Sorted(kind, by, kept)
  BY DEF Searched
<1> HIDE DEF A, K
<1>5. kept \in Seq(A) /\ ToSet(kept) = ToSet(items) \cap K
  BY <1>1, KeepIn, KeptSet
<1> HIDE DEF kept
<1>6. InOrder(kind, by, Sorted(kind, by, kept)) /\ ToSet(Sorted(kind, by, kept)) = ToSet(kept)
  BY <1>1, <1>5, SortedInOrder
<1> QED
  BY <1>2, <1>3, <1>4, <1>5, <1>6 DEF A, K

-----------------------------------------------------------------------------
(* The lists *)

ListFields == {"name", "clicks", "kind", "there", "items", "shown", "query", "choice", "by", "loading",
               "error", "failed", "cached"}
ItemLists == Seq(ToSet(Items[page.kind]))
\* What came is of the items there are, and was filtered.
ListTyped ==
  /\ DOMAIN page = ListFields
  /\ page.kind \in Kinds
  /\ page.there \in ItemLists /\ page.items \in ItemLists
  /\ page.cached # None => page.cached \in ItemLists
ListFiltered == page.shown = Searched(page.kind, page.items, page.query, page.choice, page.by)
\* An error that is not of the last fetch is on a page that does not clear it, and what
\* is shown without one is what the cache has.
ListErrors ==
  /\ page.failed => page.error \/ page.loading
  /\ page.error /\ (~page.failed \/ page.loading) => ~Clears(page.kind)
  /\ ~page.loading /\ ~page.error => page.cached \in {None, page.items}
ListInv == ListTyped /\ ListFiltered /\ ListErrors

LEMMA ListInvMeans ==
  ASSUME ListInv
  PROVE  /\ page.shown = Searched(page.kind, page.items, page.query, page.choice, page.by)
         /\ ToSet(page.shown) = {i \in ToSet(page.items) : Found(page.kind, i, page.query, page.choice)}
         /\ \A k \in DOMAIN page.shown : \A j \in 1 .. (k - 1) : ~Before(page.kind, page.by, page.shown[k], page.shown[j])
         /\ ToSet(page.items) \subseteq ToSet(Items[page.kind])
         /\ ListPanel = "error" /\ ~page.failed => ~Clears(page.kind)
         /\ ListPanel = "items" => ~page.failed /\ page.cached \in {None, page.items}
<1>1. page.kind \in Kinds /\ page.items \in Seq(ToSet(Items[page.kind]))
  BY DEF ListInv, ListTyped, ItemLists
<1> DEFINE t == Searched(page.kind, page.items, page.query, page.choice, page.by)
<1>2. /\ InOrder(page.kind, page.by, t)
      /\ ToSet(t) = {i \in ToSet(page.items) : Found(page.kind, i, page.query, page.choice)}
      /\ ToSet(page.items) \subseteq ToSet(Items[page.kind])
  BY <1>1, SearchedInOrder, SMTT(30)
<1>3. page.shown = t
  BY DEF ListInv, ListFiltered
<1>4. ListPanel = "error" => page.error
  BY DEF ListPanel
<1>5. ListPanel = "items" => ~page.loading /\ ~page.error
  BY DEF ListPanel
<1> HIDE DEF t
<1>6. \A k \in DOMAIN page.shown : \A j \in 1 .. (k - 1) : ~Before(page.kind, page.by, page.shown[k], page.shown[j])
  BY <1>2, <1>3 DEF InOrder
<1>7. ListPanel = "error" /\ ~page.failed => ~Clears(page.kind)
  BY <1>4 DEF ListInv, ListErrors
<1>8. ListPanel = "items" => ~page.failed /\ page.cached \in {None, page.items}
  BY <1>5 DEF ListInv, ListErrors
<1> QED
  BY <1>2, <1>3, <1>6, <1>7, <1>8 DEF t

\* A list without items shows none.
LEMMA NothingShown ==
  ASSUME NEW kind, NEW q, NEW choice, NEW by
  PROVE  Searched(kind, <<>>, q, choice, by) = <<>>
<1> DEFINE K == {i \in ToSet(<<>>) : Found(kind, i, q, choice)}
<1>1. <<>> \in Seq({}) /\ Len(<<>>) = 0
  OBVIOUS
<1>2. Keep(<<>>, K) = <<>>
  <2> HIDE DEF K
  <2>1. Keep(<<>>, K) \in Seq({}) /\ Len(Keep(<<>>, K)) <= 0
    BY <1>1, KeepIn
  <2> QED
    BY <2>1
<1>3. Sorted(kind, by, <<>>) = <<>>
  <2>1. PICK f : /\ DOMAIN f = 0 .. Len(<<>>)
                 /\ f = [k \in 0 .. Len(<<>>) |-> IF k = 0 THEN <<>> ELSE Inserted(kind, by, f[k - 1], <<>>[k])]
                 /\ Sorted(kind, by, <<>>) = f[Len(<<>>)]
    BY <1>1, SortedDefined
  <2>2. 0 \in 0 .. Len(<<>>)
    BY <1>1
  <2> QED
    BY <1>1, <2>1, <2>2
<1> QED
  BY <1>2, <1>3 DEF Searched

LEMMA ListInitInv == ListInit => ListInv
<1> SUFFICES ASSUME ListInit PROVE ListInv
  OBVIOUS
<1>1. PICK kind \in Kinds :
        page = ListMounted(kind) ++ [name |-> "list", clicks |-> 0, there |-> Items[kind], cached |-> None]
  BY DEF ListInit
<1>2. /\ DOMAIN page = ListFields /\ page.kind = kind /\ page.there = Items[kind] /\ page.items = <<>>
      /\ page.shown = <<>> /\ page.cached = None /\ page.loading = TRUE /\ page.error = FALSE /\ page.failed = FALSE
  BY <1>1 DEF ListMounted, ++, ListFields
<1>3. ListTyped
  <2>1. Items[kind] \in ItemLists
    BY <1>2, CatalogueAssumption DEF ItemLists
  <2>2. <<>> \in ItemLists
    BY EmptySeq DEF ItemLists
  <2> QED
    BY <1>2, <2>1, <2>2 DEF ListTyped
<1> QED
  BY <1>2, <1>3, NothingShown DEF ListInv, ListFiltered, ListErrors

\* The list is filtered anew, from these items.
LEMMA RefilteredStep ==
  ASSUME ListInv, NEW items \in ItemLists, NEW q, NEW choice, NEW by,
         DOMAIN page' = ListFields, Same({"kind", "there"}),
         page'.items = items, page'.query = q, page'.choice = choice, page'.by = by,
         page'.shown = Searched(page.kind, items, q, choice, by),
         page'.cached # None => page'.cached \in ItemLists,
         ListErrors'
  PROVE  ListInv'
  BY DEF ListInv, ListTyped, ListFiltered, ItemLists, Same

LEMMA ListStep ==
  ASSUME On("list"), ListInv, ListNext, page'.name = "list"
  PROVE  ListInv'
<1>1. /\ DOMAIN page = ListFields /\ page.kind \in Kinds
      /\ page.there \in ItemLists /\ page.items \in ItemLists
      /\ page.cached # None => page.cached \in ItemLists
  BY DEF ListInv, ListTyped
<1>2. CASE ListChanges
  <2> DEFINE there == IF page.there = <<>> THEN Items[page.kind] ELSE Tail(page.there)
  <2>0. Items[page.kind] \in ItemLists /\ page.there \in ItemLists
    BY <1>1, CatalogueAssumption DEF ItemLists
  <2>1. there \in ItemLists
    <3> DEFINE A == ToSet(Items[page.kind])
    <3>1. ItemLists = Seq(A)
      BY DEF ItemLists
    <3> HIDE DEF A
    <3> QED
      BY <2>0, <3>1
  <2>2. Click([there |-> there])
    BY <1>2 DEF ListChanges
  <2> HIDE DEF there
  <2>3. DOMAIN page' = ListFields /\ page'.there = there /\ Same(ListFields \ {"there", "clicks"})
    BY <1>1, <2>2 DEF Click, Change, ++, Same, ListFields
  <2> QED
    BY <1>1, <2>1, <2>3 DEF ListInv, ListTyped, ListFiltered, ListErrors, ItemLists, Same, ListFields
<1>3. CASE ListCacheExpires
  <2>1. DOMAIN page' = ListFields /\ page'.cached = None /\ Same(ListFields \ {"cached"})
    BY <1>1, <1>3 DEF ListCacheExpires, Change, Same, ListFields
  <2> QED
    BY <1>1, <2>1 DEF ListInv, ListTyped, ListFiltered, ListErrors, ItemLists, Same, ListFields
<1>4. CASE ListAnswered
  <2> DEFINE items == IF page.cached = None THEN page.there ELSE page.cached
  <2>1. items \in ItemLists
    BY <1>1
  <2>2. page.loading /\ \/ Change(ListFetched(items) ++ [loading |-> FALSE, failed |-> FALSE, cached |-> items])
                        \/ Change([loading |-> FALSE, error |-> TRUE, failed |-> TRUE])
    BY <1>4 DEF ListAnswered
  <2> HIDE DEF items
  <2>3. CASE Change(ListFetched(items) ++ [loading |-> FALSE, failed |-> FALSE, cached |-> items])
    <3>1. /\ DOMAIN page' = ListFields /\ Same({"kind", "there", "query", "choice", "by", "error"})
          /\ page'.items = items /\ page'.shown = Searched(page.kind, items, page.query, page.choice, page.by)
          /\ page'.cached = items /\ page'.loading = FALSE /\ page'.failed = FALSE
      BY <1>1, <2>3 DEF ListFetched, Refiltered, Change, ++, Same, ListFields
    <3>2. ListErrors'
      BY <2>2, <3>1 DEF ListInv, ListErrors, Same
    <3> QED
      BY <2>1, <3>1, <3>2, RefilteredStep DEF Same
  <2>4. CASE Change([loading |-> FALSE, error |-> TRUE, failed |-> TRUE])
    <3>1. /\ DOMAIN page' = ListFields /\ page'.loading = FALSE /\ page'.error = TRUE /\ page'.failed = TRUE
          /\ Same(ListFields \ {"loading", "error", "failed"})
      BY <1>1, <2>4 DEF Change, Same, ListFields
    <3> QED
      BY <1>1, <3>1 DEF ListInv, ListTyped, ListFiltered, ListErrors, ItemLists, Same, ListFields
  <2> QED
    BY <2>2, <2>3, <2>4
<1>5. CASE ListTryAgain
  <2> DEFINE e == page.error /\ ~Clears(page.kind)
  <2>1. Click([loading |-> TRUE, error |-> e])
    BY <1>5 DEF ListTryAgain
  <2> HIDE DEF e
  <2>2. DOMAIN page' = ListFields /\ page'.loading = TRUE /\ page'.error = e
        /\ Same(ListFields \ {"loading", "error", "clicks"})
    BY <1>1, <2>1 DEF Click, Change, ++, Same, ListFields
  <2>3. e => ~Clears(page.kind)
    BY DEF e
  <2> QED
    BY <1>1, <2>2, <2>3 DEF ListInv, ListTyped, ListFiltered, ListErrors, ItemLists, Same, ListFields
<1>6. CASE ListReopened
  <2>1. /\ DOMAIN page' = ListFields /\ page'.kind = page.kind /\ page'.items = <<>> /\ page'.shown = <<>>
        /\ page'.query = "" /\ page'.choice = "" /\ page'.by = "featured"
        /\ page'.loading = TRUE /\ page'.error = FALSE /\ page'.failed = FALSE /\ Same({"there", "cached"})
    BY <1>1, <1>6 DEF ListReopened, ListMounted, Click, Change, ++, Same, ListFields
  <2>2. ListTyped'
    <3>1. <<>> \in ItemLists
      BY EmptySeq DEF ItemLists
    <3> QED
      BY <1>1, <2>1, <3>1 DEF ListTyped, ItemLists, Same
  <2>3. ListFiltered'
    BY <2>1, NothingShown, ZenonT(30) DEF ListFiltered
  <2> QED
    BY <2>1, <2>2, <2>3 DEF ListInv, ListErrors
<1>7. ASSUME NEW q, NEW choice, NEW by, Click(Refiltered(page.items, q, choice, by)) PROVE ListInv'
  <2>1. /\ DOMAIN page' = ListFields /\ Same({"kind", "there", "items", "error", "failed", "loading", "cached"})
        /\ page'.query = q /\ page'.choice = choice /\ page'.by = by
        /\ page'.shown = Searched(page.kind, page.items, q, choice, by)
    BY <1>1, <1>7 DEF Refiltered, Click, Change, ++, Same, ListFields
  <2>2. ListErrors'
    BY <2>1 DEF ListInv, ListErrors, Same
  <2> QED
    BY <1>1, <2>1, <2>2, RefilteredStep DEF Same
<1>8. ASSUME NEW k, OpenMatch(k) PROVE FALSE
  <2>1. PICK c, n : page' = MatchOpened(c, n)
    BY <1>8 DEF OpenMatch
  <2> QED
    BY <2>1 DEF MatchOpened, MatchMounted, ++
<1> QED
  BY <1>2, <1>3, <1>4, <1>5, <1>6, <1>7, <1>8 DEF ListNext, TypeQuery, ChooseFilter, ChooseSort

-----------------------------------------------------------------------------
(* The page of one thing *)

ThingFields == {"name", "clicks", "thing", "asked", "then", "loading", "error", "got"}
\* What belongs to the thing has come, was asked for, or is asked for next; unless an
\* answer failed, which ends the page.
ThingInv ==
  /\ DOMAIN page = ThingFields
  /\ page.loading \in BOOLEAN /\ page.error \in BOOLEAN
  /\ page.error => page.asked = {}
  /\ ~page.error =>
       /\ page.got \cup page.asked \cup page.then = Asks(page.thing) \cup AsksNext(page.thing)
       /\ page.loading <=> page.asked # {}
       /\ page.asked = {} => page.then = {}

LEMMA ThingInvMeans == ThingInv => (ThingPanel = "thing" => page.got = Asks(page.thing) \cup AsksNext(page.thing))
<1>1. ASSUME ThingInv, ThingPanel = "thing" PROVE page.got = Asks(page.thing) \cup AsksNext(page.thing)
  <2>1. ~page.loading /\ ~page.error
    BY <1>1 DEF ThingPanel, ThingInv
  <2> QED
    BY <1>1, <2>1 DEF ThingInv
<1> QED
  BY <1>1

LEMMA AskedAtFirst == \A t : Asks(t) # {}
  BY DEF Asks

LEMMA ThingInitInv == ThingInit => ThingInv
<1> SUFFICES ASSUME ThingInit PROVE ThingInv
  OBVIOUS
<1>1. PICK t \in Things :
        page = [name |-> "thing", clicks |-> 0, thing |-> t, asked |-> Asks(t), then |-> AsksNext(t),
                loading |-> TRUE, error |-> FALSE, got |-> {}]
  BY DEF ThingInit
<1> QED
  BY <1>1, AskedAtFirst DEF ThingInv, ThingFields

LEMMA ThingStep ==
  ASSUME On("thing"), ThingInv, ThingNext
  PROVE  ThingInv'
<1>1. DOMAIN page = ThingFields /\ page.loading \in BOOLEAN /\ page.error \in BOOLEAN
  BY DEF ThingInv
<1>2. ASSUME NEW t, Click(ThingOpened(t)) PROVE ThingInv'
  <2>1. /\ DOMAIN page' = ThingFields /\ page'.thing = t /\ page'.asked = Asks(t) /\ page'.then = AsksNext(t)
        /\ page'.loading = TRUE /\ page'.error = FALSE /\ page'.got = {}
    BY <1>1, <1>2 DEF ThingOpened, Click, Change, ++, ThingFields
  <2> QED
    BY <2>1, AskedAtFirst DEF ThingInv
<1>3. CASE ThingFailed
  <2>1. DOMAIN page' = ThingFields /\ page'.asked = {} /\ page'.loading = FALSE /\ page'.error = TRUE
    BY <1>1, <1>3 DEF ThingFailed, Change, ThingFields
  <2> QED
    BY <2>1 DEF ThingInv
<1>4. ASSUME NEW r \in page.asked, ThingAnswered(r) PROVE ThingInv'
  <2>1. ~page.error
    BY <1>4 DEF ThingInv
  <2>2. /\ page.got \cup page.asked \cup page.then = Asks(page.thing) \cup AsksNext(page.thing)
        /\ page.loading
    BY <1>4, <2>1 DEF ThingInv
  <2>3. CASE page.asked \ {r} # {}
    <3>1. Change([asked |-> page.asked \ {r}, got |-> page.got \cup {r}])
      BY <1>4, <2>3 DEF ThingAnswered
    <3>2. /\ DOMAIN page' = ThingFields /\ page'.asked = page.asked \ {r} /\ page'.got = page.got \cup {r}
          /\ Same({"thing", "then", "loading", "error"})
      BY <1>1, <3>1 DEF Change, Same, ThingFields
    <3> QED
      BY <1>1, <1>4, <2>1, <2>2, <2>3, <3>2 DEF ThingInv, Same
  <2>4. CASE page.asked \ {r} = {}
    <3> DEFINE more == page.then # {}
    <3>1. Change([asked |-> page.then, then |-> {}, got |-> page.got \cup {r}, loading |-> more])
      BY <1>4, <2>4 DEF ThingAnswered
    <3>2. more \in BOOLEAN /\ (more <=> page.then # {})
      OBVIOUS
    <3> HIDE DEF more
    <3>3. /\ DOMAIN page' = ThingFields /\ page'.asked = page.then /\ page'.then = {} /\ page'.got = page.got \cup {r}
          /\ page'.loading = more /\ Same({"thing", "error"})
      BY <1>1, <3>1 DEF Change, Same, ThingFields
    <3> QED
      BY <1>1, <1>4, <2>1, <2>2, <2>4, <3>2, <3>3 DEF ThingInv, Same
  <2> QED
    BY <2>3, <2>4
<1> QED
  BY <1>2, <1>3, <1>4 DEF ThingNext, ThingTryAgain, FollowLink

-----------------------------------------------------------------------------
(* The page of one match *)

MatchFields == {"name", "clicks", "details", "cached", "loading", "refreshing", "error", "auto", "asked", "tab",
                "next", "changing", "card", "now"}
Versions == [home : Nat, away : Nat, live : BOOLEAN]
MatchTyped ==
  /\ DOMAIN page = MatchFields
  /\ page.now \in Versions
  /\ page.cached # None => page.cached \in Versions
  /\ {page.asked, page.loading, page.refreshing, page.error} \subseteq BOOLEAN
\* The details are there unless the page is loading or failed.
DetailsOK ==
  /\ ~page.loading /\ ~page.error => page.details \in Versions
  /\ page.details # None /\ page.cached # None => page.details = page.cached
RefreshOK ==
  /\ page.asked <=> (page.loading \/ page.refreshing)
  /\ page.refreshing => page.details.live /\ ~page.error
\* A match that is over stays over.
OverOK ==
  page.card # "live" =>
    /\ ~page.now.live
    /\ page.cached # None => ~page.cached.live
    /\ ~page.loading /\ ~page.error => ~page.details.live
MatchInv == MatchTyped /\ DetailsOK /\ RefreshOK /\ OverOK

\* The page as it is opened from a card, on a list or at first.
LEMMA MatchOpenedInv ==
  ASSUME NEW c, NEW n, page' = MatchOpened(c, n)
  PROVE  MatchInv'
<1> DEFINE now == Version(0, 0, c = "live")
<1>1. now \in Versions /\ now.live = (c = "live")
  BY DEF Version, Versions
<1> HIDE DEF now
<1>2. /\ DOMAIN page' = MatchFields /\ page'.details = None /\ page'.cached = None /\ page'.loading = TRUE
      /\ page'.refreshing = FALSE /\ page'.error = FALSE /\ page'.asked = TRUE /\ page'.card = c
      /\ page'.now = now
  BY DEF MatchOpened, MatchMounted, ++, MatchFields, now
<1> QED
  BY <1>1, <1>2 DEF MatchInv, MatchTyped, DetailsOK, RefreshOK, OverOK

LEMMA MatchInitInv == MatchInit => MatchInv
<1> SUFFICES ASSUME MatchInit PROVE MatchInv
  OBVIOUS
<1> DEFINE now == Version(0, 0, TRUE)
<1>1. now \in Versions
  BY DEF Version, Versions
<1>0. ("live" = "live") = TRUE
  OBVIOUS
<1>2. /\ DOMAIN page = MatchFields /\ page.details = None /\ page.cached = None /\ page.loading = TRUE
      /\ page.refreshing = FALSE /\ page.error = FALSE /\ page.asked = TRUE /\ page.card = "live"
      /\ page.now = now
  BY <1>0 DEF MatchInit, MatchOpened, MatchMounted, ++, MatchFields
<1> HIDE DEF now
<1> QED
  BY <1>1, <1>2 DEF MatchInv, MatchTyped, DetailsOK, RefreshOK, OverOK

LEMMA MatchStep ==
  ASSUME On("match"), MatchInv, MatchNext
  PROVE  MatchInv'
<1>1. /\ DOMAIN page = MatchFields /\ page.now \in Versions
      /\ page.cached # None => page.cached \in Versions
      /\ {page.asked, page.loading, page.refreshing, page.error} \subseteq BOOLEAN
  BY DEF MatchInv, MatchTyped
<1>2. CASE MatchGoesOn
  <2>1. PICK live \in BOOLEAN, h \in {0, 1} :
          Change([now |-> Version(page.now.home + h, page.now.away + (1 - h), live)])
    BY <1>2 DEF MatchGoesOn
  <2> DEFINE now == Version(page.now.home + h, page.now.away + (1 - h), live)
  <2>2. now \in Versions
    <3>1. page.now.home \in Nat /\ page.now.away \in Nat
      BY <1>1 DEF Versions
    <3>2. page.now.home + h \in Nat /\ page.now.away + (1 - h) \in Nat
      BY <3>1
    <3> QED
      BY <3>2 DEF Version, Versions
  <2>3. page.now.live
    BY <1>2 DEF MatchGoesOn
  <2> HIDE DEF now
  <2>4. DOMAIN page' = MatchFields /\ page'.now = now /\ Same(MatchFields \ {"now"})
    BY <1>1, <2>1 DEF Change, Same, MatchFields, now
  <2> QED
    BY <1>1, <2>2, <2>3, <2>4 DEF MatchInv, MatchTyped, DetailsOK, RefreshOK, OverOK, Same, MatchFields
<1>3. CASE MatchCacheExpires
  <2>1. DOMAIN page' = MatchFields /\ page'.cached = None /\ Same(MatchFields \ {"cached"})
    BY <1>1, <1>3 DEF MatchCacheExpires, Change, Same, MatchFields
  <2> QED
    BY <1>1, <2>1 DEF MatchInv, MatchTyped, DetailsOK, RefreshOK, OverOK, Same, MatchFields
<1>4. CASE MatchAnswered
  <2> DEFINE d == Details
             c == IF page.cached = None THEN d ELSE page.cached
  <2>1. d \in Versions /\ c = d /\ (page.card # "live" => ~d.live)
    BY <1>1 DEF Details, MatchInv, OverOK
  <2>2. \/ Change([asked |-> FALSE, loading |-> FALSE, refreshing |-> FALSE, details |-> d, cached |-> c])
        \/ Change([asked |-> FALSE, loading |-> FALSE, refreshing |-> FALSE, error |-> TRUE])
    BY <1>4 DEF MatchAnswered
  <2> HIDE DEF d, c
  <2>3. CASE Change([asked |-> FALSE, loading |-> FALSE, refreshing |-> FALSE, details |-> d, cached |-> c])
    <3>1. /\ DOMAIN page' = MatchFields /\ page'.asked = FALSE /\ page'.loading = FALSE /\ page'.refreshing = FALSE
          /\ page'.details = d /\ page'.cached = c /\ Same({"now", "card", "error"})
      BY <1>1, <2>3 DEF Change, Same, MatchFields
    <3> QED
      BY <1>1, <2>1, <3>1 DEF MatchInv, MatchTyped, DetailsOK, RefreshOK, OverOK, Same
  <2>4. CASE Change([asked |-> FALSE, loading |-> FALSE, refreshing |-> FALSE, error |-> TRUE])
    <3>1. /\ DOMAIN page' = MatchFields /\ page'.asked = FALSE /\ page'.loading = FALSE /\ page'.refreshing = FALSE
          /\ page'.error = TRUE /\ Same({"now", "card", "details", "cached"})
      BY <1>1, <2>4 DEF Change, Same, MatchFields
    <3> QED
      BY <1>1, <3>1 DEF MatchInv, MatchTyped, DetailsOK, RefreshOK, OverOK, Same
  <2> QED
    BY <2>2, <2>3, <2>4
<1>5. ASSUME Change(Refreshes) \/ Click(Refreshes), page.details.live, ~page.error PROVE MatchInv'
  <2>1. DOMAIN page' = MatchFields /\ page'.asked = TRUE /\ page'.refreshing = TRUE
        /\ Same({"now", "card", "details", "cached", "error", "loading"})
    BY <1>1, <1>5 DEF Refreshes, Click, Change, ++, Same, MatchFields
  <2> QED
    BY <1>1, <1>5, <2>1 DEF MatchInv, MatchTyped, DetailsOK, RefreshOK, OverOK, Same
<1>6. CASE RefreshStats \/ AutoRefreshes
  <2>1. MatchPanel = "match" => ~page.error
    BY <1>1 DEF MatchPanel
  <2> QED
    BY <1>5, <1>6, <2>1 DEF RefreshStats, LiveControls, AutoRefreshes, IntervalRuns
<1>7. CASE ToggleAuto
  <2> DEFINE auto == ~page.auto
  <2>1. Click([auto |-> auto])
    BY <1>7 DEF ToggleAuto
  <2> HIDE DEF auto
  <2>2. DOMAIN page' = MatchFields /\ Same(MatchFields \ {"clicks", "auto"})
    BY <1>1, <2>1 DEF Click, Change, ++, Same, MatchFields
  <2> QED
    BY <1>1, <2>2 DEF MatchInv, MatchTyped, DetailsOK, RefreshOK, OverOK, Same, MatchFields
<1>8. ASSUME (\E t \in MatchTabs : ChooseMatchTab(t)) \/ MatchTabChanges \/ MatchTabSettles PROVE MatchInv'
  <2>1. DOMAIN page' = MatchFields /\ Same(MatchFields \ {"clicks", "changing", "next", "tab"})
    BY <1>1, <1>8 DEF ChooseMatchTab, MatchTabChanges, MatchTabSettles, Click, Change, ++, Same, MatchFields
  <2> QED
    BY <1>1, <2>1 DEF MatchInv, MatchTyped, DetailsOK, RefreshOK, OverOK, Same, MatchFields
<1>9. CASE MatchReloaded
  <2>1. /\ DOMAIN page' = MatchFields /\ page'.details = None /\ page'.cached = None /\ page'.loading = TRUE
        /\ page'.refreshing = FALSE /\ page'.error = FALSE /\ page'.asked = TRUE /\ Same({"card", "now"})
    BY <1>1, <1>9 DEF MatchReloaded, MatchMounted, Click, Change, ++, Same, MatchFields
  <2> QED
    BY <1>1, <2>1 DEF MatchInv, MatchTyped, DetailsOK, RefreshOK, OverOK, Same
<1> QED
  BY <1>2, <1>3, <1>4, <1>6, <1>7, <1>8, <1>9 DEF MatchNext

\* The bars of two numbers, in percent of their sum: the longer one is that of the
\* greater number.
LEMMA Factor ==
  ASSUME NEW m \in Nat, NEW n \in Nat, NEW t \in Nat \ {0}, m * t < n * t
  PROVE  m < n
<1> SUFFICES ASSUME m >= n PROVE FALSE
  OBVIOUS
<1> DEFINE d == m - n
<1>1. d \in Nat /\ m = n + d
  OBVIOUS
<1> HIDE DEF d
<1>2. m * t = n * t + d * t /\ d * t >= 0
  BY <1>1
<1> QED
  BY <1>2

LEMMA Floor ==
  ASSUME NEW a \in Nat, NEW t \in Nat \ {0}
  PROVE  /\ (100 * a) \div t \in Nat
         /\ ((100 * a) \div t) * t <= 100 * a
         /\ 100 * a < (((100 * a) \div t) + 1) * t
  OBVIOUS

LEMMA Bars ==
  ASSUME NEW a \in Nat, NEW b \in Nat
  PROVE  LET total == IF a + b = 0 THEN 1 ELSE a + b
             p == (100 * a) \div total
             q == (100 * b) \div total
         IN /\ p \in Nat /\ q \in Nat /\ p + q \in {0, 99, 100}
            /\ a < b => p < q
            /\ b < a => q < p
            /\ a = b => p = q
<1> DEFINE t == IF a + b = 0 THEN 1 ELSE a + b
           p == (100 * a) \div t
           q == (100 * b) \div t
<1>1. t \in Nat \ {0} /\ (a + b # 0 => t = a + b)
  OBVIOUS
<1> HIDE DEF t
<1>2. /\ p \in Nat /\ p * t <= 100 * a /\ 100 * a < (p + 1) * t
      /\ q \in Nat /\ q * t <= 100 * b /\ 100 * b < (q + 1) * t
  BY <1>1, Floor, ZenonT(30)
<1>3. a = b => p = q
  OBVIOUS
<1> HIDE DEF p, q
<1>4. CASE a + b = 0
  <2>1. a = 0 /\ b = 0
    BY <1>4
  <2>2. p * t <= 0 /\ q * t <= 0
    BY <1>2, <2>1
  <2>3. p = 0 /\ q = 0
    BY <1>1, <1>2, <2>2
  <2> QED
    BY <1>2, <1>3, <2>1, <2>3 DEF p, q, t
<1>5. CASE a + b # 0
  <2>0. t = a + b
    BY <1>1, <1>5
  <2>1. (p + q) * t = p * t + q * t /\ (p + q + 2) * t = (p + 1) * t + (q + 1) * t /\ 101 * t = 100 * t + t
    BY <1>1, <1>2
  <2>2. (p + q) * t < 101 * t /\ 100 * t < (p + q + 2) * t
    BY <1>1, <1>2, <2>0, <2>1
  <2>3. p + q < 101 /\ 100 < p + q + 2
    BY <1>1, <1>2, <2>2, Factor
  <2>4. p + q \in {99, 100}
    BY <1>2, <2>3
  <2>5. ASSUME NEW x \in Nat, NEW y \in Nat, NEW u \in Nat, NEW v \in Nat, x + y = t, x < y,
               u * t <= 100 * x, 100 * y < (v + 1) * t
        PROVE  u < v
    <3>1. 100 * x < 50 * t /\ 50 * t < 100 * y
      BY <1>1, <2>5
    <3>2. u * t < 50 * t /\ 50 * t < (v + 1) * t
      BY <1>1, <2>5, <3>1
    <3>3. u < 50 /\ 50 < v + 1
      BY <1>1, <3>2, Factor
    <3> QED
      BY <3>3
  <2>6. (a < b => p < q) /\ (b < a => q < p)
    BY <1>1, <1>2, <2>0, <2>5
  <2> QED
    BY <1>2, <1>3, <2>4, <2>6 DEF p, q, t
<1> QED
  BY <1>4, <1>5

\* The bar that is green is the longer one exactly where more is better.
LEMMA StatRowShown ==
  ASSUME NEW l \in MoreIsBetter \cup LessIsBetter, NEW a \in Nat, NEW b \in Nat
  PROVE  LET row == StatRow(l, a, b) IN
           /\ row.percent[1] + row.percent[2] \in {0, 99, 100}
           /\ \A s \in {1, 2} :
                /\ row.trophy[s] <=> row.percent[s] # row.percent[3 - s]
                                    /\ (row.percent[s] > row.percent[3 - s] <=> l \in MoreIsBetter)
                /\ row.colour[s] = "green" <=> row.colour[3 - s] = "red"
<1> DEFINE t == IF a + b = 0 THEN 1 ELSE a + b
           p == (100 * a) \div t
           q == (100 * b) \div t
           better == Better(l, a, b)
           colour(side) == IF better[side] THEN "green" ELSE IF better[3 - side] THEN "red" ELSE "team"
           row == [trophy |-> better, percent |-> <<p, q>>, colour |-> <<colour(1), colour(2)>>]
<1>1. StatRow(l, a, b) = row
  BY DEF StatRow
<1>2. /\ p \in Nat /\ q \in Nat /\ p + q \in {0, 99, 100}
      /\ a < b => p < q
      /\ b < a => q < p
      /\ a = b => p = q
  BY Bars
<1>3. l \in LessIsBetter => l \notin MoreIsBetter
  BY DEF MoreIsBetter, LessIsBetter
<1>4. better = IF l \in MoreIsBetter THEN <<a > b, b > a>> ELSE <<a < b, b < a>>
  BY DEF Better
<1> HIDE DEF p, q, t, better
<1>5. /\ better[1] <=> p # q /\ (p > q <=> l \in MoreIsBetter)
      /\ better[2] <=> q # p /\ (q > p <=> l \in MoreIsBetter)
      /\ ~(better[1] /\ better[2])
  <2>1. CASE l \in MoreIsBetter
    <3>1. (better[1] <=> a > b) /\ (better[2] <=> b > a)
      BY <1>4, <2>1
    <3> QED
      BY <1>2, <2>1, <3>1
  <2>2. CASE l \notin MoreIsBetter
    <3>1. (better[1] <=> a < b) /\ (better[2] <=> b < a)
      BY <1>4, <2>2
    <3> QED
      BY <1>2, <2>2, <3>1
  <2> QED
    BY <2>1, <2>2
<1>6. (colour(1) = "green" <=> colour(2) = "red") /\ (colour(2) = "green" <=> colour(1) = "red")
  <2>1. 3 - 1 = 2 /\ 3 - 2 = 1
    OBVIOUS
  <2> QED
    BY <1>5, <2>1
<1>7. /\ row.trophy = better /\ row.percent[1] = p /\ row.percent[2] = q
      /\ row.colour[1] = colour(1) /\ row.colour[2] = colour(2)
  OBVIOUS
<1> HIDE DEF colour, row
<1>8. 3 - 1 = 2 /\ 3 - 2 = 1
  OBVIOUS
<1> QED
  BY <1>1, <1>2, <1>5, <1>6, <1>7, <1>8

LEMMA MatchInvMeans == MatchInv => MatchAsCached
<1> SUFFICES ASSUME MatchInv PROVE MatchAsCached
  OBVIOUS
<1>1. /\ page.details # None /\ page.cached # None => page.details = page.cached
      /\ page.asked <=> (page.loading \/ page.refreshing)
      /\ page.refreshing => page.details.live /\ ~page.error
  BY DEF MatchInv, DetailsOK, RefreshOK
<1>2. MatchPanel = "match" => ~page.loading /\ ~page.error
  BY DEF MatchPanel, MatchInv, MatchTyped
<1>3. page.card # "live" => ~LiveControls
  BY <1>2 DEF LiveControls, MatchInv, OverOK
<1>4. ASSUME MatchPanel = "match", NEW l \in DOMAIN StatRows
      PROVE  LET row == StatRows[l] IN
               /\ row.percent[1] + row.percent[2] \in {0, 99, 100}
               /\ \A s \in {1, 2} :
                    /\ row.trophy[s] <=> row.percent[s] # row.percent[3 - s]
                                        /\ (row.percent[s] > row.percent[3 - s] <=> l \in MoreIsBetter)
                    /\ row.colour[s] = "green" <=> row.colour[3 - s] = "red"
  <2>1. page.details.home \in Nat /\ page.details.away \in Nat
    BY <1>2, <1>4 DEF MatchInv, DetailsOK, Versions
  <2>2. l \in MoreIsBetter \cup LessIsBetter /\ StatRows[l] = StatRow(l, page.details.home, page.details.away)
    BY DEF StatRows
  <2> QED
    BY <2>1, <2>2, StatRowShown
<1> QED
  BY <1>1, <1>3, <1>4 DEF MatchAsCached

-----------------------------------------------------------------------------
(* The events of a match *)

\* The goals of a team among these events, and the ids of all goals among them.
GoalsIn(team, H) == Goals(team) \cap H
GoalIds(H) == {<<Script[i].team, Script[i].time>> : i \in {j \in H : Script[j].outcome = "Goal"}}
\* Those of these events that are a team's.
TeamsOf(team, H) == {i \in H : Script[i].team = team}
\* The goals among these events with ids that none of H has.
NewGoalsIn(E, H) ==
  {i \in E : /\ Script[i].kind = "shot" /\ Script[i].outcome = "Goal"
             /\ <<Script[i].team, Script[i].time>> \notin GoalIds(H)}
MatchKnown == page.match \in DOMAIN Scripts

LEMMA ScriptKnown ==
  ASSUME MatchKnown
  PROVE  /\ Script \in Seq(ToSet(Script)) /\ Len(Script) \in Nat /\ DOMAIN Script = 1 .. Len(Script)
         /\ 1 \in DOMAIN Script /\ Script[1].kind = "match_start" /\ Names[1] # Names[2]
         /\ \A i \in DOMAIN Script : EventOK(Script[i], {Names[1], Names[2]})
         /\ \A i, j \in DOMAIN Script : i # j => Apart(Script[i], Script[j])
<1> DEFINE s == Script  A == ToSet(Script)
<1>1. ScriptOK(s)
  BY PlotAssumption DEF MatchKnown, Script
<1>2. s \in Seq(A) /\ s # <<>>
  BY <1>1 DEF ScriptOK
<1>3. Len(s) \in Nat /\ DOMAIN s = 1 .. Len(s) /\ 1 \in DOMAIN s
  <2> HIDE DEF s, A
  <2>1. Len(s) \in Nat /\ DOMAIN s = 1 .. Len(s)
    BY <1>2
  <2>2. Len(s) # 0
    BY <1>2
  <2> QED
    BY <2>1, <2>2
<1>4. Names[1] = s[1].home /\ Names[2] = s[1].away
  BY DEF Names
<1> HIDE DEF s, A
<1>5. s[1].kind = "match_start" /\ Names[1] # Names[2]
  BY <1>1, <1>4 DEF ScriptOK
<1>6. \A i \in DOMAIN s : EventOK(s[i], {Names[1], Names[2]})
  BY <1>1, <1>4 DEF ScriptOK
<1>7. \A i, j \in DOMAIN s : i # j => Apart(s[i], s[j])
  BY <1>1 DEF ScriptOK
<1> QED
  BY <1>2, <1>3, <1>5, <1>6, <1>7 DEF s, A

LEMMA GoalsCounted ==
  ASSUME MatchKnown, NEW team, NEW H \in SUBSET DOMAIN Script
  PROVE  IsFiniteSet(GoalsIn(team, H)) /\ Cardinality(GoalsIn(team, H)) \in Nat
<1>1. GoalsIn(team, H) \subseteq 1 .. Len(Script) /\ Len(Script) \in Nat
  BY ScriptKnown DEF GoalsIn
<1>2. IsFiniteSet(1 .. Len(Script))
  BY <1>1, FS_Interval
<1> QED
  BY <1>1, <1>2, FS_Subset, FS_CardinalityType

\* The goals whose ids are not among those of the events counted are the goals of the
\* other events: counting them counts each goal once.
LEMMA CountedOnce ==
  ASSUME MatchKnown, NEW E \in SUBSET DOMAIN Script, NEW H \in SUBSET E
  PROVE  /\ GoalIds(H) \cup {<<Script[i].team, Script[i].time>> : i \in NewGoalsIn(E, H)} = GoalIds(E)
         /\ \A team :
              /\ Cardinality(TeamsOf(team, NewGoalsIn(E, H))) \in Nat
              /\ Cardinality(GoalsIn(team, H)) + Cardinality(TeamsOf(team, NewGoalsIn(E, H)))
                   = Cardinality(GoalsIn(team, E))
<1> DEFINE new == NewGoalsIn(E, H)
           Id(i) == <<Script[i].team, Script[i].time>>
           goal(i) == Script[i].outcome = "Goal"
<1>1. \A i \in E : goal(i) => Script[i].kind = "shot"
  BY ScriptKnown DEF EventOK
<1>2. \A i, j \in E : goal(i) /\ goal(j) /\ Id(i) = Id(j) => i = j
  <2>1. ASSUME NEW i \in E, NEW j \in E, goal(i), goal(j), Id(i) = Id(j), i # j PROVE FALSE
    <3>1. Apart(Script[i], Script[j])
      BY <2>1, ScriptKnown
    <3>2. Script[i].team = Script[j].team /\ Script[i].time = Script[j].time
      BY <2>1
    <3> QED
      BY <2>1, <3>1, <3>2 DEF Apart
  <2> QED
    BY <2>1
<1>3. \A i : goal(i) <=> Script[i].outcome = "Goal"
  OBVIOUS
<1>4. GoalIds(H) = {Id(i) : i \in {j \in H : goal(j)}} /\ GoalIds(E) = {Id(i) : i \in {j \in E : goal(j)}}
  BY DEF GoalIds
<1>5. new = {i \in E : goal(i) /\ Id(i) \notin GoalIds(H)}
  BY <1>1 DEF NewGoalsIn
<1> HIDE DEF Id, goal, new
<1>6. \A i : i \in new <=> i \in E /\ i \notin H /\ goal(i)
  BY <1>2, <1>4, <1>5
<1>7. GoalIds(H) \cup {Id(i) : i \in new} = GoalIds(E)
  BY <1>4, <1>6
<1>8. ASSUME NEW team
      PROVE  /\ Cardinality(TeamsOf(team, new)) \in Nat
             /\ Cardinality(GoalsIn(team, H)) + Cardinality(TeamsOf(team, new)) = Cardinality(GoalsIn(team, E))
  <2> DEFINE more == TeamsOf(team, new)
             S == GoalsIn(team, H)
             T == GoalsIn(team, E)
  <2>1. more = T \ S
    BY <1>3, <1>6 DEF GoalsIn, Goals, TeamsOf
  <2>2. S \subseteq T
    BY DEF GoalsIn
  <2>3. IsFiniteSet(S) /\ IsFiniteSet(T)
    BY GoalsCounted
  <2> HIDE DEF more, S, T
  <2>4. IsFiniteSet(more)
    BY <2>1, <2>3, FS_Subset
  <2>5. S \cup more = T /\ S \cap more = {}
    BY <2>1, <2>2
  <2>6. Cardinality(S \cup more) = Cardinality(S) + Cardinality(more) - Cardinality(S \cap more)
    BY <2>3, <2>4, FS_Union
  <2>7. Cardinality(S) \in Nat /\ Cardinality(more) \in Nat /\ Cardinality({}) = 0
    BY <2>3, <2>4, FS_CardinalityType, FS_EmptySet
  <2>8. Cardinality(S \cup more) = Cardinality(T) /\ Cardinality(S \cap more) = Cardinality({})
    BY <2>5
  <2>9. Cardinality(S) + Cardinality(more) = Cardinality(T)
    BY <2>6, <2>7, <2>8
  <2> QED
    BY <2>7, <2>9 DEF more, S, T
<1> QED
  BY <1>7, <1>8 DEF Id, new

-----------------------------------------------------------------------------
(* The simulation page's pitch *)

PlotFields == {"name", "clicks", "match", "produced", "flight", "heard", "processed", "home", "away", "base", "score",
               "names"}
PlotTyped ==
  /\ DOMAIN page = PlotFields
  /\ MatchKnown
  /\ page.heard \in Seq(DOMAIN Script)
  /\ {page.home, page.away} \subseteq Nat
  /\ page.base \in Nat \X Nat /\ page.score \in Nat \X Nat
\* The goals counted are those heard, whoever they were counted for.
PlotCounted ==
  /\ page.processed = GoalIds(ToSet(page.heard))
  /\ page.heard = <<>> => page.home = page.base[1] /\ page.away = page.base[2]
  /\ page.heard # <<>> /\ page.heard[1] = 1 =>
       /\ page.home = page.base[1] + Cardinality(GoalsIn(Names[1], ToSet(page.heard)))
       /\ page.away = page.base[2] + Cardinality(GoalsIn(Names[2], ToSet(page.heard)))
PlotInv == PlotTyped /\ PlotCounted /\ page.score \in {<<page.home, page.away>>, <<0, 0>>}

\* A page is mounted on a score.
LEMMA MountedInv ==
  ASSUME NEW m \in DOMAIN Scripts, NEW score \in Nat \X Nat, NEW f, Named,
         DOMAIN page' = PlotFields, page'.match = m, page'.heard = <<>>, page'.processed = {},
         page'.home = score[1], page'.away = score[2], page'.base = score, page'.score = score
  PROVE  PlotInv'
<1>1. score[1] \in Nat /\ score[2] \in Nat /\ score = <<score[1], score[2]>>
  OBVIOUS
<1>2. PlotTyped'
  <2>1. <<>> \in Seq(DOMAIN Script')
    BY EmptySeq
  <2> QED
    BY <1>1, <2>1 DEF PlotTyped, MatchKnown
<1>3. PlotCounted'
  BY DEF PlotCounted, GoalIds, ToSet
<1> QED
  BY <1>1, <1>2, <1>3 DEF PlotInv

LEMMA PlotInitInv == PlotInit => PlotInv
<1> SUFFICES ASSUME PlotInit PROVE PlotInv
  OBVIOUS
<1>1. PICK old \in {[score |-> <<0, 0>>, names |-> None], [score |-> <<1, 0>>, names |-> <<"B", "A">>]} :
        page = Mounted(1, old.score, old.names) ++ [name |-> "plot", clicks |-> 0]
  BY DEF PlotInit
<1>2. old.score \in Nat \X Nat /\ 1 \in DOMAIN Scripts
  BY PlotAssumption
<1>3. /\ DOMAIN page = PlotFields /\ page.match = 1 /\ page.heard = <<>> /\ page.processed = {}
      /\ page.home = old.score[1] /\ page.away = old.score[2] /\ page.base = old.score /\ page.score = old.score
  BY <1>1 DEF Mounted, ++, PlotFields
<1>4. old.score[1] \in Nat /\ old.score[2] \in Nat /\ old.score = <<old.score[1], old.score[2]>>
  BY <1>2
<1>5. PlotTyped
  <2>1. <<>> \in Seq(DOMAIN Script)
    BY EmptySeq
  <2> QED
    BY <1>2, <1>3, <1>4, <2>1 DEF PlotTyped, MatchKnown
<1>6. PlotCounted
  BY <1>3 DEF PlotCounted, GoalIds, ToSet
<1> QED
  BY <1>3, <1>4, <1>5, <1>6 DEF PlotInv

\* An event is heard for the first time: the goal, if it is one, is counted.
LEMMA FirstHeard ==
  ASSUME PlotInv, NEW i \in DOMAIN Script, ~Heard(i), NEW names, i = 1 \/ Heard(1) => names = Names
  PROVE  LET heard == Append(page.heard, i)
             more == ScoreWith(heard, names)
         IN /\ heard \in Seq(DOMAIN Script) /\ heard # <<>>
            /\ DOMAIN more \subseteq {"home", "away", "processed", "score"}
            /\ {"home", "away", "processed"} \subseteq DOMAIN more
            /\ more.home \in Nat /\ more.away \in Nat
            /\ more.processed = GoalIds(ToSet(heard))
            /\ heard[1] = 1 =>
                 /\ more.home = page.base[1] + Cardinality(GoalsIn(Names[1], ToSet(heard)))
                 /\ more.away = page.base[2] + Cardinality(GoalsIn(Names[2], ToSet(heard)))
            /\ "score" \in DOMAIN more => more.score = <<more.home, more.away>>
            /\ "score" \notin DOMAIN more => more.home = page.home /\ more.away = page.away
<1> DEFINE heard == Append(page.heard, i)
           H == ToSet(page.heard)
           E == ToSet(heard)
           new == NewGoalsIn(E, H)
           n1 == TeamsOf(names[1], new)
           n2 == IF names[2] = names[1] THEN {} ELSE TeamsOf(names[2], new)
           home == page.home + Cardinality(n1)
           away == page.away + Cardinality(n2)
           processed == page.processed \cup {<<Script[j].team, Script[j].time>> : j \in new}
           more == ScoreWith(heard, names)
<1>0. page.heard \in Seq(DOMAIN Script) /\ MatchKnown /\ page.home \in Nat /\ page.away \in Nat
  BY DEF PlotInv, PlotTyped
<1>1. /\ heard \in Seq(DOMAIN Script) /\ E = H \cup {i} /\ H \in SUBSET E /\ E \in SUBSET DOMAIN Script
      /\ heard # <<>> /\ heard[1] = IF page.heard = <<>> THEN i ELSE page.heard[1]
  <2> DEFINE D == DOMAIN Script  s == page.heard
  <2>1. s \in Seq(D) /\ i \in D
    BY <1>0
  <2> HIDE DEF D, s
  <2>2. /\ Append(s, i) \in Seq(D) /\ ToSet(Append(s, i)) = ToSet(s) \cup {i}
        /\ Append(s, i) # <<>> /\ Append(s, i)[1] = IF s = <<>> THEN i ELSE s[1]
    BY <2>1, AppendedSet
  <2>3. ToSet(s) \subseteq D
    BY <2>1 DEF ToSet
  <2> QED
    BY <2>1, <2>2, <2>3 DEF D, s
<1>4. page.processed = GoalIds(H)
  BY DEF PlotInv, PlotCounted
<1>3. Uncounted(heard) = new
  BY <1>4 DEF Uncounted, NewGoalsIn
<1>2. more = [home |-> home, away |-> away, processed |-> processed]
             ++ IF <<home, away>> # <<page.home, page.away>> THEN [score |-> <<home, away>>] ELSE <<>>
  <2> DEFINE u == Uncounted(heard)
  <2>1. n1 = {j \in u : Script[j].team = names[1]}
    BY <1>3 DEF TeamsOf
  <2>2. n2 = {j \in u : Script[j].team = names[2] /\ names[2] # names[1]}
    BY <1>3 DEF TeamsOf
  <2>3. processed = page.processed \cup {<<Script[j].team, Script[j].time>> : j \in u}
    BY <1>3
  <2>4. /\ Cardinality(n1) = Cardinality({j \in u : Script[j].team = names[1]})
        /\ Cardinality(n2) = Cardinality({j \in u : Script[j].team = names[2] /\ names[2] # names[1]})
    BY <2>1, <2>2, Zenon
  <2>5. /\ home = page.home + Cardinality({j \in u : Script[j].team = names[1]})
        /\ away = page.away + Cardinality({j \in u : Script[j].team = names[2] /\ names[2] # names[1]})
    BY <2>4
  <2> HIDE DEF n1, n2, home, away, processed
  <2> QED
    BY <2>3, <2>5, Zenon DEF ScoreWith
<1>13. E \in SUBSET DOMAIN Script /\ H \in SUBSET E /\ MatchKnown
  BY <1>0, <1>1
<1>5. processed = GoalIds(E)
  <2>1. processed = GoalIds(H) \cup {<<Script[j].team, Script[j].time>> : j \in NewGoalsIn(E, H)}
    BY <1>3, <1>4
  <2> HIDE DEF E, H, new, processed
  <2> QED
    BY <1>13, <2>1, CountedOnce
<1>6. \A team :
        /\ Cardinality(TeamsOf(team, new)) \in Nat
        /\ Cardinality(GoalsIn(team, H)) + Cardinality(TeamsOf(team, new)) = Cardinality(GoalsIn(team, E))
  <2> HIDE DEF E, H, home, away, processed, n1, n2
  <2> QED
    BY <1>13, CountedOnce
<1>7. home \in Nat /\ away \in Nat
  <2>1. n2 = {} \/ n2 = TeamsOf(names[2], new)
    OBVIOUS
  <2>2. Cardinality(n1) \in Nat /\ Cardinality(n2) \in Nat
    BY <1>6, <2>1, FS_EmptySet
  <2> HIDE DEF n1, n2
  <2> QED
    BY <1>0, <2>2
\* The match's own names are known when its first event was the first heard.
<1>8. ASSUME heard[1] = 1
      PROVE  /\ home = page.base[1] + Cardinality(GoalsIn(Names[1], E))
             /\ away = page.base[2] + Cardinality(GoalsIn(Names[2], E))
  <2>1. i = 1 \/ Heard(1)
    <3>1. CASE page.heard = <<>>
      BY <1>1, <1>8, <3>1
    <3>2. CASE page.heard # <<>>
      <4>1. page.heard[1] = 1 /\ 1 \in DOMAIN page.heard
        BY <1>0, <1>1, <1>8, <3>2
      <4> QED
        BY <4>1 DEF Heard, ToSet
    <3> QED
      BY <3>1, <3>2
  <2>2. names = Names /\ Names[1] # Names[2]
    BY <1>0, <2>1, ScriptKnown
  <2>3. n1 = TeamsOf(Names[1], new) /\ n2 = TeamsOf(Names[2], new)
    BY <2>2
  <2>4. /\ Cardinality(GoalsIn(Names[1], H)) + Cardinality(n1) = Cardinality(GoalsIn(Names[1], E))
        /\ Cardinality(GoalsIn(Names[2], H)) + Cardinality(n2) = Cardinality(GoalsIn(Names[2], E))
        /\ Cardinality(n1) \in Nat /\ Cardinality(n2) \in Nat
    BY <1>6, <2>3
  <2>5. /\ page.home = page.base[1] + Cardinality(GoalsIn(Names[1], H))
        /\ page.away = page.base[2] + Cardinality(GoalsIn(Names[2], H))
    <3>1. CASE page.heard = <<>>
      <4>1. H = {}
        BY <3>1 DEF ToSet
      <4>2. GoalsIn(Names[1], H) = {} /\ GoalsIn(Names[2], H) = {}
        BY <4>1 DEF GoalsIn
      <4>3. page.home = page.base[1] /\ page.away = page.base[2]
        BY <3>1 DEF PlotInv, PlotCounted
      <4> HIDE DEF H
      <4> QED
        BY <1>0, <4>2, <4>3, FS_EmptySet
    <3>2. CASE page.heard # <<>>
      BY <1>1, <1>8, <3>2 DEF PlotInv, PlotCounted
    <3> QED
      BY <3>1, <3>2
  <2>6. /\ Cardinality(GoalsIn(Names[1], H)) \in Nat /\ Cardinality(GoalsIn(Names[2], H)) \in Nat
    <3> HIDE DEF H, E
    <3>1. H \in SUBSET DOMAIN Script
      BY <1>1
    <3> QED
      BY <1>0, <3>1, GoalsCounted
  <2>7. page.base[1] \in Nat /\ page.base[2] \in Nat
    BY DEF PlotInv, PlotTyped
  <2> HIDE DEF n1, n2, H, E
  <2> QED
    BY <2>4, <2>5, <2>6, <2>7
<1> HIDE DEF home, away, processed, H, E, new, n1, n2
<1>9. /\ DOMAIN more = {"home", "away", "processed"}
           \cup (IF <<home, away>> # <<page.home, page.away>> THEN {"score"} ELSE {})
      /\ more.home = home /\ more.away = away /\ more.processed = processed
      /\ <<home, away>> # <<page.home, page.away>> => more.score = <<home, away>>
  <2>1. CASE <<home, away>> # <<page.home, page.away>>
    BY <1>2, <2>1 DEF ++
  <2>2. CASE <<home, away>> = <<page.home, page.away>>
    <3>1. DOMAIN <<>> = {}
      OBVIOUS
    <3> QED
      BY <1>2, <2>2, <3>1 DEF ++
  <2> QED
    BY <2>1, <2>2
<1> HIDE DEF more
<1>10. <<home, away>> = <<page.home, page.away>> => home = page.home /\ away = page.away
  OBVIOUS
<1> HIDE DEF heard
<1>11. /\ heard \in Seq(DOMAIN Script) /\ heard # <<>>
       /\ DOMAIN more \subseteq {"home", "away", "processed", "score"}
       /\ {"home", "away", "processed"} \subseteq DOMAIN more
       /\ more.home \in Nat /\ more.away \in Nat
       /\ more.processed = GoalIds(E)
       /\ heard[1] = 1 =>
            /\ more.home = page.base[1] + Cardinality(GoalsIn(Names[1], E))
            /\ more.away = page.base[2] + Cardinality(GoalsIn(Names[2], E))
       /\ "score" \in DOMAIN more => more.score = <<more.home, more.away>>
       /\ "score" \notin DOMAIN more => more.home = page.home /\ more.away = page.away
  BY <1>1, <1>5, <1>7, <1>8, <1>9, <1>10
<1> QED
  BY <1>11 DEF more, heard, E

\* The score as it is, or reset by match_start.
LEMMA HeardAgain ==
  ASSUME PlotInv, NEW flight, NEW i,
         Change([flight |-> flight, heard |-> page.heard] ++ Start(i))
  PROVE  PlotInv'
<1>0. DOMAIN page = PlotFields
  BY DEF PlotInv, PlotTyped
<1>1. /\ DOMAIN page' = PlotFields /\ page'.heard = page.heard
      /\ Same({"match", "processed", "home", "away", "base"})
      /\ page'.score = page.score \/ page'.score = <<0, 0>>
  <2>1. CASE i = 1
    <3>1. Change([flight |-> flight, heard |-> page.heard] ++ [names |-> Names, score |-> <<0, 0>>])
      BY <2>1 DEF Start
    <3> QED
      BY <1>0, <3>1 DEF Change, ++, Same, PlotFields
  <2>2. CASE i # 1
    <3> DEFINE no == [x \in {} |-> 0]
    <3>1. Change([flight |-> flight, heard |-> page.heard] ++ <<>>) /\ DOMAIN <<>> = {}
      BY <2>2 DEF Start
    <3> QED
      BY <1>0, <3>1 DEF Change, ++, Same, PlotFields
  <2> QED
    BY <2>1, <2>2
<1>2. MatchKnown' /\ Script' = Script /\ Names' = Names /\ DOMAIN Script' = DOMAIN Script
  BY <1>1 DEF MatchKnown, Script, Names, Same, PlotInv, PlotTyped
<1>3. \A H, team : GoalsIn(team, H)' = GoalsIn(team, H) /\ GoalIds(H)' = GoalIds(H)
  BY <1>2 DEF GoalsIn, Goals, GoalIds
<1>4. <<0, 0>> \in Nat \X Nat
  OBVIOUS
<1>5. PlotTyped'
  BY <1>1, <1>2, <1>4 DEF PlotInv, PlotTyped, Same
<1>6. PlotCounted'
  BY <1>1, <1>2, <1>3 DEF PlotInv, PlotCounted, Same
<1>7. page'.score \in {<<page'.home, page'.away>>, <<0, 0>>}
  BY <1>1 DEF PlotInv, Same
<1> QED
  BY <1>5, <1>6, <1>7 DEF PlotInv

LEMMA PlotStep ==
  ASSUME On("plot"), Named, PlotInv, PlotNext
  PROVE  PlotInv'
<1>1. /\ DOMAIN page = PlotFields /\ MatchKnown /\ page.heard \in Seq(DOMAIN Script)
      /\ page.base \in Nat \X Nat /\ page.score \in Nat \X Nat
      /\ page.score \in {<<page.home, page.away>>, <<0, 0>>}
  BY DEF PlotInv, PlotTyped
<1>2. CASE EventProduced
  <2>1. PICK p, f : Change([produced |-> p, flight |-> f])
    BY <1>2 DEF EventProduced
  <2>2. DOMAIN page' = PlotFields /\ Same(PlotFields \ {"produced", "flight"})
    BY <1>1, <2>1 DEF Change, Same, PlotFields
  <2>3. page'.match = page.match /\ page'.heard = page.heard
    BY <2>2 DEF Same, PlotFields
  <2>4. MatchKnown' /\ Script' = Script /\ Names' = Names
    BY <1>1, <2>3 DEF MatchKnown, Script, Names
  <2>5. \A H, team : GoalsIn(team, H)' = GoalsIn(team, H) /\ GoalIds(H)' = GoalIds(H)
    BY <2>4 DEF GoalsIn, Goals, GoalIds
  <2> QED
    BY <2>2, <2>4, <2>5 DEF PlotInv, PlotTyped, PlotCounted, Same, PlotFields
<1>3. ASSUME NEW m \in DOMAIN Scripts, NEW more, DOMAIN more \subseteq {"produced"},
             Click(Mounted(m, StoredScore, page.names) ++ more)
      PROVE  PlotInv'
  <2> DEFINE score == StoredScore
  <2>1. score \in Nat \X Nat
    BY <1>1 DEF StoredScore
  <2>2. Click(Mounted(m, score, page.names) ++ more)
    BY <1>3
  <2> HIDE DEF score
  <2>3. /\ DOMAIN page' = PlotFields /\ page'.match = m /\ page'.heard = <<>> /\ page'.processed = {}
        /\ page'.home = score[1] /\ page'.away = score[2] /\ page'.base = score /\ page'.score = score
    BY <1>1, <1>3, <2>2, SMTT(30) DEF Mounted, Click, Change, ++, PlotFields
  <2> QED
    BY <2>1, <2>3, MountedInv
<1>4. CASE Reload
  <2> DEFINE more == [produced |-> page.produced]
  <2>1. Click(Mounted(page.match, StoredScore, page.names) ++ more) /\ DOMAIN more = {"produced"}
    BY <1>4 DEF Reload
  <2> HIDE DEF more
  <2> QED
    BY <1>1, <1>3, <2>1 DEF MatchKnown
<1>5. CASE NextMatch
  <2> DEFINE m == page.match + 1  f == Mounted(m, StoredScore, page.names)  no == [x \in {} |-> 0]
  <2>1. Len(Scripts) \in Nat /\ DOMAIN Scripts = 1 .. Len(Scripts)
    <3> DEFINE A == ToSet(Scripts)
    <3>1. Scripts \in Seq(A)
      BY PlotAssumption
    <3> HIDE DEF A
    <3> QED
      BY <3>1
  <2>2. m \in DOMAIN Scripts
    BY <1>1, <1>5, <2>1 DEF NextMatch, MatchKnown
  <2>3. Click(f)
    BY <1>5 DEF NextMatch
  <2>4. f ++ no = f
    BY DEF ++, Mounted
  <2>5. Click(f ++ no) /\ DOMAIN no = {}
    BY <2>3, <2>4
  <2> HIDE DEF m, no
  <2> QED
    BY <1>3, <2>2, <2>5
<1>6. ASSUME NEW i \in DOMAIN Script, NEW c \in Channels, EventArrives(i, c) PROVE PlotInv'
  <2> DEFINE flight == page.flight \ {<<i, c>>}
  <2>1. CASE Heard(i)
    <3>1. Change([flight |-> flight, heard |-> page.heard] ++ Start(i))
      BY <1>6, <2>1 DEF EventArrives
    <3> QED
      BY <3>1, HeardAgain
  <2>2. CASE ~Heard(i)
    <3> DEFINE heard == Append(page.heard, i)
               names == IF i = 1 \/ Heard(1) THEN Names ELSE TeamNames
               more == ScoreWith(heard, names)
               start == Start(i)
    <3>1. Change([flight |-> flight, heard |-> heard] ++ (more ++ start))
      BY <1>6, <2>2 DEF EventArrives
    <3>2. i = 1 \/ Heard(1) => names = Names
      OBVIOUS
    <3> HIDE DEF names
    <3>3. /\ heard \in Seq(DOMAIN Script) /\ heard # <<>>
          /\ DOMAIN more \subseteq {"home", "away", "processed", "score"}
          /\ {"home", "away", "processed"} \subseteq DOMAIN more
          /\ more.home \in Nat /\ more.away \in Nat
          /\ more.processed = GoalIds(ToSet(heard))
          /\ heard[1] = 1 =>
               /\ more.home = page.base[1] + Cardinality(GoalsIn(Names[1], ToSet(heard)))
               /\ more.away = page.base[2] + Cardinality(GoalsIn(Names[2], ToSet(heard)))
          /\ "score" \in DOMAIN more => more.score = <<more.home, more.away>>
          /\ "score" \notin DOMAIN more => more.home = page.home /\ more.away = page.away
      BY <1>6, <2>2, <3>2, FirstHeard
    <3>4. DOMAIN start \subseteq {"names", "score"} /\ ("score" \in DOMAIN start => start.score = <<0, 0>>)
      <4>1. CASE i = 1
        BY <4>1 DEF Start
      <4>2. CASE i # 1
        <5>1. start = <<>> /\ DOMAIN <<>> = {}
          BY <4>2 DEF Start
        <5> HIDE DEF start
        <5> QED
          BY <5>1
      <4> QED
        BY <4>1, <4>2
    <3> HIDE DEF more, heard, start, flight
    <3>5. /\ DOMAIN page' = PlotFields /\ page'.heard = heard /\ page'.home = more.home /\ page'.away = more.away
          /\ page'.processed = more.processed /\ Same({"match", "base"})
          /\ page'.score = IF "score" \in DOMAIN more THEN more.score
                           ELSE IF "score" \in DOMAIN start THEN start.score ELSE page.score
      BY <1>1, <3>1, <3>3, <3>4 DEF Change, ++, Same, PlotFields
    <3>6. page'.score \in {<<page'.home, page'.away>>, <<0, 0>>} /\ page'.score \in Nat \X Nat
      BY <1>1, <3>3, <3>4, <3>5, SMTT(30)
    <3>7. MatchKnown' /\ Script' = Script /\ Names' = Names /\ DOMAIN Script' = DOMAIN Script
      BY <1>1, <3>5 DEF MatchKnown, Script, Names, Same
    <3>8. \A H, team : GoalsIn(team, H)' = GoalsIn(team, H) /\ GoalIds(H)' = GoalIds(H)
      BY <3>7 DEF GoalsIn, Goals, GoalIds
    <3>9. PlotTyped'
      BY <1>1, <3>3, <3>5, <3>6, <3>7 DEF PlotTyped, Same
    <3>10. PlotCounted'
      BY <3>3, <3>5, <3>7, <3>8 DEF PlotCounted, Same
    <3> QED
      BY <3>6, <3>9, <3>10 DEF PlotInv
  <2> QED
    BY <2>1, <2>2
<1> QED
  BY <1>2, <1>4, <1>5, <1>6 DEF PlotNext

-----------------------------------------------------------------------------
(* The events drawn *)

\* The places heard of the events on the pitch are of those relevant.
LEMMA OnPitchRelevant ==
  ASSUME NEW N, page.heard \in Seq(N)
  PROVE  \A k \in OnPitch : k \in DOMAIN page.heard /\ StillOn(k) /\ Script[page.heard[k]].kind \in Drawable
<1> DEFINE s == [k \in DOMAIN page.heard |-> k]
           K == {k \in DOMAIN page.heard : StillOn(k) /\ Script[page.heard[k]].kind \in Drawable}
           r == Keep(s, K)
<1>1. s \in Seq(Nat)
  <2>1. Len(page.heard) \in Nat /\ DOMAIN page.heard = 1 .. Len(page.heard)
    OBVIOUS
  <2>2. s \in [1 .. Len(page.heard) -> Nat]
    BY <2>1
  <2> QED
    BY <2>1, <2>2, IsASeq
<1>2. Relevant = r
  BY DEF Relevant
<1>3. K \subseteq DOMAIN page.heard /\ \A k \in K : StillOn(k) /\ Script[page.heard[k]].kind \in Drawable
  OBVIOUS
<1> HIDE DEF K, s
<1>4. r \in Seq(Nat) /\ \A i \in DOMAIN r : r[i] \in K
  BY <1>1, KeepIn
<1> HIDE DEF r
<1> DEFINE from == IF Len(r) > ShownEvents THEN Len(r) - ShownEvents + 1 ELSE 1
           last == SubSeq(r, from, Len(r))
<1>5. LastOf(r, ShownEvents) = last
  BY DEF LastOf
<1>6. from \in Nat /\ from >= 1 /\ Len(r) \in Nat /\ DOMAIN r = 1 .. Len(r)
  BY <1>4, PlotAssumption
<1> HIDE DEF from
<1>7. last \in Seq(Nat) /\ \A i \in DOMAIN last : last[i] \in K
  <2>1. DOMAIN last = 1 .. (IF from <= Len(r) THEN Len(r) - from + 1 ELSE 0)
        /\ \A i \in DOMAIN last : last[i] = r[from + i - 1]
    BY <1>4, <1>6
  <2>2. \A i \in DOMAIN last : from + i - 1 \in DOMAIN r
    BY <1>6, <2>1
  <2>3. last \in Seq(Nat)
    BY <1>4, <1>6
  <2> HIDE DEF last
  <2> QED
    BY <1>4, <2>1, <2>2, <2>3
<1> HIDE DEF last
<1> DEFINE t == [j \in DOMAIN last |-> j]
           V == {j \in DOMAIN last : Script[page.heard[last[j]]].kind \in {"match_start", "first_half_end", "match_end"}
                                => Len(last) - j <= 2}
           v == Keep(t, V)
<1>8. Visible = v
  BY <1>2, <1>5 DEF Visible
<1>9. t \in Seq(Nat)
  <2>1. Len(last) \in Nat /\ DOMAIN last = 1 .. Len(last)
    BY <1>7
  <2>2. t \in [1 .. Len(last) -> Nat]
    BY <2>1
  <2> QED
    BY <2>1, <2>2, IsASeq
<1>10. V \subseteq DOMAIN last
  OBVIOUS
<1> HIDE DEF V, t
<1>11. \A j \in DOMAIN v : v[j] \in V
  BY <1>9, KeepIn
<1> HIDE DEF v
<1>12. OnPitch = {last[v[j]] : j \in DOMAIN v}
  BY <1>2, <1>5, <1>8 DEF OnPitch
<1> QED
  BY <1>3, <1>7, <1>10, <1>11, <1>12

\* Nobody is drawn after his card: the keepers of a team are told apart by nothing.
LEMMA NobodyAfterCard ==
  ASSUME MatchKnown, page.heard \in Seq(DOMAIN Script), NEW k \in OnPitch, NEW j \in 1 .. (k - 1)
  PROVE  LET e == Script[page.heard[k]]  d == Script[page.heard[j]]
         IN e.player # None => ~(Dismisses(d) /\ d.player = e.player)
<1> DEFINE e == Script[page.heard[k]]  d == Script[page.heard[j]]
<1>1. k \in DOMAIN page.heard /\ StillOn(k)
  BY OnPitchRelevant
<1>2. Len(page.heard) \in Nat /\ DOMAIN page.heard = 1 .. Len(page.heard)
  OBVIOUS
<1>3. j \in DOMAIN page.heard
  BY <1>1, <1>2
<1>4. page.heard[k] \in DOMAIN Script /\ page.heard[j] \in DOMAIN Script
  BY <1>1, <1>3
<1>5. ASSUME d.player = e.player PROVE Player(d) = Player(e)
  <2>1. CASE page.heard[k] = page.heard[j]
    BY <2>1
  <2>2. CASE page.heard[k] # page.heard[j]
    <3>1. Apart(d, e)
      BY <1>4, <2>2, ScriptKnown
    <3>2. d.keeper = e.keeper /\ (d.keeper => d.team = e.team)
      BY <1>5, <3>1 DEF Apart
    <3> HIDE DEF d, e
    <3> QED
      BY <1>5, <3>2 DEF Player
  <2> QED
    BY <2>1, <2>2
<1>6. e.player # None => ~(Dismisses(d) /\ Player(d) = Player(e))
  BY <1>1 DEF StillOn
<1> HIDE DEF d, e
<1>7. e.player # None => ~(Dismisses(d) /\ d.player = e.player)
  BY <1>5, <1>6
<1> QED
  BY <1>7 DEF d, e

\* Every place of the pitch is drawn on it, about its centre.
LEMMA PlacedOnPitch ==
  ASSUME NEW at \in Pitch \cup {None}, NEW team
  PROVE  Placed(at, team)[1] \in -60 .. 60 /\ Placed(at, team)[2] \in -40 .. 40
<1> DEFINE p == Mirrored(at, team)
<1>1. p[1] \in 0 .. 120 /\ p[2] \in 0 .. 80
  <2>1. CASE at = None
    BY <2>1 DEF Mirrored
  <2>2. CASE at # None
    <3>1. at \in (0 .. 120) \X (0 .. 80)
      BY <2>2 DEF Pitch
    <3>2. at[1] \in 0 .. 120 /\ at[2] \in 0 .. 80
      BY <3>1
    <3>3. p = <<120 - at[1], 80 - at[2]>> \/ p = at
      BY <2>2 DEF Mirrored
    <3> HIDE DEF p
    <3> QED
      BY <3>2, <3>3
  <2> QED
    BY <2>1, <2>2
<1>2. Placed(at, team) = <<p[1] - 60, p[2] - 40>>
  BY DEF Placed
<1> HIDE DEF p
<1> QED
  BY <1>1, <1>2

LEMMA DrawnOnPitch ==
  ASSUME NEW e, NEW teams, EventOK(e, teams)
  PROVE  /\ \A m \in Drawn(e).markers : m.at[1] \in -60 .. 60 /\ m.at[2] \in -40 .. 40
         /\ \A b \in Drawn(e).arrows \cup Drawn(e).ball : b[1] \in -60 .. 60 /\ b[2] \in -42 .. 40
         /\ \A m \in Drawn(e).markers : m.colour = "yellow" \/ (m.colour = Colour(e.team) /\ e.team \in teams)
<1> DEFINE p == Placed(e.at, e.team)  a == Arrow(e)
           Ok(d) == /\ \A m \in d.markers : m.at = p /\ (m.colour = "yellow" \/ (m.colour = Colour(e.team) /\ e.team \in teams))
                    /\ \A b \in d.arrows \cup d.ball : b \in {p, a, <<p[1], p[2] - 2>>}
<1>1. p[1] \in -60 .. 60 /\ p[2] \in -40 .. 40
  BY PlacedOnPitch DEF EventOK
<1>2. a[1] \in -60 .. 60 /\ a[2] \in -40 .. 40
  BY PlacedOnPitch DEF EventOK, Arrow
<1>3. e.kind \notin MatchEvents => e.team \in teams
  BY DEF EventOK
<1> DEFINE none == [markers |-> {}, arrows |-> {}, ball |-> {}]
<1>4. Drawn(e) \in {none, DrawPass(e), DrawReceipt(e), DrawPressure(e), DrawFoul(e), DrawSave(e), DrawShot(e)}
      /\ (e.kind \in MatchEvents => Drawn(e) = none)
  BY DEF Drawn, MatchEvents, DrawStatus, DrawPass, DrawReceipt, DrawCarry, DrawPressure, DrawFoul, DrawThrowIn, DrawSave, DrawShot
<1> HIDE DEF p, a
<1>5. Ok(none)
  OBVIOUS
<1>6. ASSUME e.team \in teams
      PROVE  /\ Ok(DrawPass(e)) /\ Ok(DrawReceipt(e)) /\ Ok(DrawPressure(e)) /\ Ok(DrawFoul(e))
             /\ Ok(DrawSave(e)) /\ Ok(DrawShot(e))
  BY <1>6 DEF DrawPass, DrawReceipt, DrawPressure, DrawFoul, DrawSave, DrawShot, Marker, p, a
<1> HIDE DEF none
<1>7. Ok(Drawn(e))
  BY <1>3, <1>4, <1>5, <1>6
<1>8. p[1] \in -60 .. 60 /\ p[2] - 2 \in -42 .. 40 /\ p[2] \in -42 .. 40 /\ a[2] \in -42 .. 40
  BY <1>1, <1>2
<1> DEFINE low == <<p[1], p[2] - 2>>
<1>9. low[1] = p[1] /\ low[2] = p[2] - 2
  OBVIOUS
<1>10. \A b \in Drawn(e).arrows \cup Drawn(e).ball : b \in {p, a, low}
  BY <1>7
<1> HIDE DEF low
<1>11. \A b \in {p, a, low} : b[1] \in -60 .. 60 /\ b[2] \in -42 .. 40
  BY <1>2, <1>8, <1>9
<1>12. \A m \in Drawn(e).markers : m.at = p /\ (m.colour = "yellow" \/ (m.colour = Colour(e.team) /\ e.team \in teams))
  BY <1>7
<1> QED
  BY <1>1, <1>10, <1>11, <1>12

LEMMA PlotInvMeans == PlotInv => ScoreCountsGoalsOnce
<1> SUFFICES ASSUME PlotInv PROVE ScoreCountsGoalsOnce
  OBVIOUS
<1>1. MatchKnown /\ page.heard \in Seq(DOMAIN Script)
  BY DEF PlotInv, PlotTyped
<1>2. \A team : {i \in Goals(team) : Heard(i)} = GoalsIn(team, ToSet(page.heard))
  BY DEF GoalsIn, Heard
<1>3. (page.heard # <<>> /\ page.heard[1] = 1) =>
        /\ page.home = page.base[1] + Cardinality({i \in Goals(Names[1]) : Heard(i)})
        /\ page.away = page.base[2] + Cardinality({i \in Goals(Names[2]) : Heard(i)})
  <2>1. /\ Cardinality({i \in Goals(Names[1]) : Heard(i)}) = Cardinality(GoalsIn(Names[1], ToSet(page.heard)))
        /\ Cardinality({i \in Goals(Names[2]) : Heard(i)}) = Cardinality(GoalsIn(Names[2], ToSet(page.heard)))
    BY <1>2
  <2> QED
    BY <2>1 DEF PlotInv, PlotCounted
<1>4. page.score \in {<<page.home, page.away>>, <<0, 0>>}
  BY DEF PlotInv
<1>5. ASSUME NEW k \in OnPitch
      PROVE  LET e == Script[page.heard[k]]  d == Drawn(e) IN
           /\ e.player # None =>
                \A j \in 1 .. (k - 1) :
                  ~(Dismisses(Script[page.heard[j]]) /\ Script[page.heard[j]].player = e.player)
           /\ \A m \in d.markers : m.at[1] \in -60 .. 60 /\ m.at[2] \in -40 .. 40
           /\ \A b \in d.arrows \cup d.ball : b[1] \in -60 .. 60 /\ b[2] \in -42 .. 40
  <2> DEFINE e == Script[page.heard[k]]
  <2>1. \A j \in 1 .. (k - 1) :
          e.player # None => ~(Dismisses(Script[page.heard[j]]) /\ Script[page.heard[j]].player = e.player)
    BY <1>1, NobodyAfterCard
  <2>2. k \in DOMAIN page.heard
    BY <1>1, OnPitchRelevant
  <2>3. page.heard[k] \in DOMAIN Script
    BY <1>1, <2>2
  <2>4. EventOK(e, {Names[1], Names[2]})
    BY <1>1, <2>3, ScriptKnown
  <2> HIDE DEF e
  <2>5. /\ \A m \in Drawn(e).markers : m.at[1] \in -60 .. 60 /\ m.at[2] \in -40 .. 40
        /\ \A b \in Drawn(e).arrows \cup Drawn(e).ball : b[1] \in -60 .. 60 /\ b[2] \in -42 .. 40
    BY <2>4, DrawnOnPitch
  <2> QED
    BY <2>1, <2>5 DEF e
<1> QED
  BY <1>3, <1>4, <1>5 DEF ScoreCountsGoalsOnce

-----------------------------------------------------------------------------
(* The demonstration page *)

DemoFields == {"name", "clicks", "match", "index", "streamed", "started", "paused", "heard", "home", "away",
               "processed", "names", "broken"}
DemoTyped ==
  /\ DOMAIN page = DemoFields
  /\ page.match = 1 /\ page.names = DemoTeams
  /\ page.index \in 0 .. Len(Script)
  /\ page.streamed \in Seq(Nat \ {0}) /\ page.heard \in Seq(DOMAIN Script)
  /\ {page.started, page.paused, page.broken} \subseteq BOOLEAN
\* The stream goes up, at most one past the next entry.
Ascends(s) == \A k \in DOMAIN s : \A j \in 1 .. (k - 1) : s[j] <= s[k]
Streams ==
  /\ Ascends(page.streamed)
  /\ \A k \in DOMAIN page.streamed : page.streamed[k] <= page.index + 1
\* What the plotter was given is what was streamed up to some time.
StartOf(h, s) == Len(h) <= Len(s) /\ \A k \in 1 .. Len(h) : h[k] = s[k]
GivenOK ==
  /\ StartOf(page.heard, page.streamed)
  /\ page.started /\ ~page.paused /\ ~page.broken => page.heard = page.streamed
  /\ page.broken => page.index = Len(Script)
DemoCounted ==
  /\ page.processed = GoalIds(ToSet(page.heard))
  /\ page.home = Cardinality(GoalsIn(DemoTeams[1], ToSet(page.heard)))
  /\ page.away = Cardinality(GoalsIn(DemoTeams[2], ToSet(page.heard)))
DemoInv == DemoTyped /\ Streams /\ GivenOK /\ DemoCounted

LEMMA DemoKnown ==
  ASSUME page.match = 1
  PROVE  MatchKnown /\ Script = Scripts[1] /\ Names = DemoTeams
<1>1. 1 \in DOMAIN Scripts
  <2> DEFINE A == ToSet(Scripts)
  <2>1. Scripts \in Seq(A) /\ Scripts # <<>>
    BY PlotAssumption
  <2> HIDE DEF A
  <2> QED
    BY <2>1
<1> QED
  BY <1>1 DEF MatchKnown, Script, Names, DemoTeams

\* Nothing was streamed yet.
DemoFresh ==
  /\ DOMAIN page = DemoFields
  /\ page.match = 1 /\ page.index = 0 /\ page.streamed = <<>> /\ page.heard = <<>>
  /\ page.started = FALSE /\ page.paused = FALSE /\ page.broken = FALSE
  /\ page.home = 0 /\ page.away = 0 /\ page.processed = {} /\ page.names = DemoTeams

LEMMA FreshInv == DemoFresh => DemoInv
<1> SUFFICES ASSUME DemoFresh PROVE DemoInv
  OBVIOUS
<1> USE DEF DemoFresh
<1>1. Len(Script) \in Nat
  BY DemoKnown, ScriptKnown
<1>2. <<>> \in Seq(Nat \ {0}) /\ <<>> \in Seq(DOMAIN Script) /\ Len(<<>>) = 0 /\ DOMAIN <<>> = {}
  BY EmptySeq
<1>3. DemoTyped
  <2>1. 0 \in 0 .. Len(Script)
    BY <1>1
  <2> QED
    BY <1>2, <2>1 DEF DemoTyped
<1>4. Streams /\ GivenOK
  BY <1>2 DEF Streams, Ascends, GivenOK, StartOf
<1>5. DemoCounted
  <2>1. ToSet(page.heard) = {}
    BY DEF ToSet
  <2>2. \A team : GoalsIn(team, {}) = {}
    BY DEF GoalsIn
  <2>3. GoalIds({}) = {}
    BY DEF GoalIds
  <2>4. Cardinality(GoalsIn(DemoTeams[1], {})) = 0 /\ Cardinality(GoalsIn(DemoTeams[2], {})) = 0
    BY <2>2, FS_EmptySet
  <2> QED
    BY <2>1, <2>3, <2>4 DEF DemoCounted
<1> QED
  BY <1>3, <1>4, <1>5 DEF DemoInv

\* The plotter is given the stream: the goals among all of it are counted.
LEMMA StreamCounted ==
  ASSUME page.match = 1, page.heard \in Seq(DOMAIN Script), DemoCounted,
         NEW es \in Seq(DOMAIN Script), StartOf(page.heard, es)
  PROVE  LET more == DemoScore(es) IN
           /\ DOMAIN more = {"home", "away", "processed"}
           /\ more.processed = GoalIds(ToSet(es))
           /\ more.home = Cardinality(GoalsIn(DemoTeams[1], ToSet(es)))
           /\ more.away = Cardinality(GoalsIn(DemoTeams[2], ToSet(es)))
<1> DEFINE H == ToSet(page.heard)  E == ToSet(es)  new == NewGoalsIn(E, H)  more == DemoScore(es)
           n1 == TeamsOf(DemoTeams[1], new)  n2 == TeamsOf(DemoTeams[2], new)
           processed == page.processed \cup {<<Script[i].team, Script[i].time>> : i \in new}
<1>1. MatchKnown /\ Names[1] = DemoTeams[1] /\ Names[2] = DemoTeams[2]
  BY DemoKnown
<1>2. CASE es = <<>>
  <2>1. E = {}
    BY <1>2 DEF ToSet
  <2>2. \A team : GoalsIn(team, E) = {}
    BY <2>1 DEF GoalsIn
  <2>3. GoalIds(E) = {}
    BY <2>1 DEF GoalIds
  <2>4. more = [home |-> 0, away |-> 0, processed |-> {}]
    BY <1>2 DEF DemoScore
  <2> HIDE DEF E, more
  <2>5. Cardinality(GoalsIn(DemoTeams[1], E)) = 0 /\ Cardinality(GoalsIn(DemoTeams[2], E)) = 0
    BY <2>2, FS_EmptySet
  <2> QED
    BY <2>3, <2>4, <2>5 DEF E, more
<1>3. CASE es # <<>>
  <2>1. Uncounted(es) = new /\ NewGoals(es) = new
    BY DEF Uncounted, NewGoals, NewGoalsIn, DemoCounted
  <2>2. more = [home |-> page.home + Cardinality(n1), away |-> page.away + Cardinality(n2), processed |-> processed]
    <3> DEFINE u == NewGoals(es)
    <3>1. n1 = {i \in u : Script[i].team = DemoTeams[1]} /\ n2 = {i \in u : Script[i].team = DemoTeams[2]}
      BY <2>1 DEF TeamsOf
    <3>2. processed = page.processed \cup {<<Script[i].team, Script[i].time>> : i \in u}
      BY <2>1
    <3>3. /\ Cardinality(n1) = Cardinality({i \in u : Script[i].team = DemoTeams[1]})
          /\ Cardinality(n2) = Cardinality({i \in u : Script[i].team = DemoTeams[2]})
      BY <3>1, Zenon
    <3> HIDE DEF n1, n2, processed
    <3> QED
      BY <1>3, <3>2, <3>3, Zenon DEF DemoScore
  <2>3. H \in SUBSET E /\ E \in SUBSET DOMAIN Script
    <3>1. \A k \in DOMAIN page.heard : k \in DOMAIN es /\ page.heard[k] = es[k]
      BY DEF StartOf
    <3>2. \A k \in DOMAIN es : es[k] \in DOMAIN Script
      OBVIOUS
    <3> QED
      BY <3>1, <3>2 DEF ToSet
  <2>4. page.processed = GoalIds(H) /\ page.home = Cardinality(GoalsIn(DemoTeams[1], H))
        /\ page.away = Cardinality(GoalsIn(DemoTeams[2], H))
    BY DEF DemoCounted
  <2>5. processed = GoalIds(H) \cup {<<Script[j].team, Script[j].time>> : j \in NewGoalsIn(E, H)}
    BY <2>4
  <2> HIDE DEF E, H, processed, more
  <2>6. processed = GoalIds(E)
    BY <1>1, <2>3, <2>5, CountedOnce
  <2>7. /\ Cardinality(GoalsIn(DemoTeams[1], H)) + Cardinality(n1) = Cardinality(GoalsIn(DemoTeams[1], E))
        /\ Cardinality(GoalsIn(DemoTeams[2], H)) + Cardinality(n2) = Cardinality(GoalsIn(DemoTeams[2], E))
    BY <1>1, <2>3, CountedOnce
  <2> HIDE DEF n1, n2
  <2>8. /\ DOMAIN more = {"home", "away", "processed"} /\ more.processed = GoalIds(E)
        /\ more.home = Cardinality(GoalsIn(DemoTeams[1], E)) /\ more.away = Cardinality(GoalsIn(DemoTeams[2], E))
    BY <2>2, <2>4, <2>6, <2>7
  <2> QED
    BY <2>8 DEF more, E
<1> QED
  BY <1>2, <1>3

LEMMA DemoInitInv == DemoInit => DemoInv
<1>1. DemoInit => DemoFresh
  BY DEF DemoInit, DemoMounted, ++, DemoFresh, DemoFields
<1> QED
  BY <1>1, FreshInv

LEMMA FreshAgain == DemoFresh' => DemoInv'
  BY FreshInv, PTL

\* The fields that a step of the demonstration page leaves.
LEMMA DemoLaid ==
  ASSUME DOMAIN page = DemoFields, NEW f, NEW g, "name" \notin DOMAIN f \cup DOMAIN g,
         "clicks" \notin DOMAIN f \cup DOMAIN g, Change(f ++ g) \/ Click(f ++ g)
  PROVE  /\ DOMAIN page' = DemoFields
         /\ \A x \in DemoFields \ {"name", "clicks"} :
              page'[x] = IF x \in DOMAIN f THEN f[x] ELSE IF x \in DOMAIN g THEN g[x] ELSE page[x]
<1>1. CASE Change(f ++ g)
  BY <1>1 DEF Change, ++
<1>2. CASE Click(f ++ g)
  BY <1>2 DEF Click, Change, ++
<1> QED
  BY <1>1, <1>2

\* What the plotter is given, and what that leaves of its page.
GivenTo(g, es) ==
  \/ /\ \A k \in DOMAIN es : es[k] \in DOMAIN Script
     /\ DOMAIN g = {"heard", "home", "away", "processed"} /\ g.heard = es
     /\ g.home = DemoScore(es).home /\ g.away = DemoScore(es).away
     /\ g.processed = DemoScore(es).processed
  \/ /\ \E k \in DOMAIN es : es[k] \notin DOMAIN Script
     /\ DOMAIN g = {"broken"} /\ g.broken = TRUE

LEMMA GivenFields ==
  ASSUME NEW es
  PROVE  GivenTo(Given(es), es)
<1> DEFINE more == DemoScore(es)
<1>1. DOMAIN more = {"home", "away", "processed"}
  BY DEF DemoScore
<1>4. (\A k \in DOMAIN es : es[k] \in DOMAIN Script) => Given(es) = [heard |-> es] ++ more
  BY DEF Given
<1> HIDE DEF more
<1>2. CASE \A k \in DOMAIN es : es[k] \in DOMAIN Script
  <2>1. Given(es) = [heard |-> es] ++ more
    BY <1>2, <1>4
  <2>2. /\ DOMAIN ([heard |-> es] ++ more) = {"heard", "home", "away", "processed"}
        /\ ([heard |-> es] ++ more).heard = es /\ ([heard |-> es] ++ more).home = more.home
        /\ ([heard |-> es] ++ more).away = more.away
        /\ ([heard |-> es] ++ more).processed = more.processed
    BY <1>1 DEF ++
  <2> QED
    BY <1>2, <2>1, <2>2 DEF GivenTo, more
<1>3. CASE ~ \A k \in DOMAIN es : es[k] \in DOMAIN Script
  <2>1. Given(es) = [broken |-> TRUE]
    BY <1>3 DEF Given
  <2> QED
    BY <1>3, <2>1 DEF GivenTo
<1> QED
  BY <1>2, <1>3

\* The stream after a step, and what is given of it.
LEMMA FollowsStream ==
  ASSUME DemoInv, ~page.broken, NEW f, NEW es \in Seq(Nat \ {0}),
         NEW started \in BOOLEAN, NEW paused \in BOOLEAN,
         DOMAIN f \subseteq {"index", "streamed", "started", "paused"},
         LET g == Follows(es, started, paused) IN Change(f ++ g) \/ Click(f ++ g),
         "started" \in DOMAIN f => f.started = started, "started" \notin DOMAIN f => page.started = started,
         "paused" \in DOMAIN f => f.paused = paused, "paused" \notin DOMAIN f => page.paused = paused,
         "streamed" \in DOMAIN f => f.streamed = es, "streamed" \notin DOMAIN f => page.streamed = es,
         "index" \in DOMAIN f => f.index \in page.index .. Len(Script),
         Ascends(es), StartOf(page.streamed, es),
         \A k \in DOMAIN es : es[k] <= page.index + 1
           \/ ("index" \in DOMAIN f /\ es[k] <= f.index + 1)
  PROVE  DemoInv'
<1> DEFINE g == Follows(es, started, paused)
<1>1. /\ DOMAIN page = DemoFields /\ page.match = 1 /\ page.names = DemoTeams
      /\ page.index \in 0 .. Len(Script) /\ page.heard \in Seq(DOMAIN Script) /\ page.broken = FALSE
      /\ StartOf(page.heard, page.streamed) /\ page.streamed \in Seq(Nat \ {0})
  BY DEF DemoInv, DemoTyped, GivenOK
<1>2. Len(Script) \in Nat /\ DOMAIN Script = 1 .. Len(Script)
  BY <1>1, DemoKnown, ScriptKnown
<1>3. StartOf(page.heard, es)
  <2>1. Len(page.heard) \in Nat /\ Len(page.streamed) \in Nat /\ Len(es) \in Nat
    BY <1>1
  <2>2. Len(page.heard) <= Len(es)
    BY <1>1, <2>1 DEF StartOf
  <2>3. \A k \in 1 .. Len(page.heard) : k \in 1 .. Len(page.streamed)
    BY <1>1, <2>1 DEF StartOf
  <2>4. \A k \in 1 .. Len(page.heard) : page.heard[k] = es[k]
    BY <1>1, <2>3 DEF StartOf
  <2> QED
    BY <2>2, <2>4 DEF StartOf
<1>4. IF started /\ ~paused THEN GivenTo(g, es) ELSE DOMAIN g = {}
  <2>1. CASE started /\ ~paused
    BY <2>1, GivenFields DEF Follows
  <2>2. CASE ~(started /\ ~paused)
    <3>1. g = <<>> /\ DOMAIN <<>> = {}
      BY <2>2 DEF Follows
    <3> HIDE DEF g
    <3> QED
      BY <2>2, <3>1
  <2> QED
    BY <2>1, <2>2
<1>5. Change(f ++ g) \/ Click(f ++ g)
  OBVIOUS
<1>6. DOMAIN g \subseteq {"heard", "home", "away", "processed", "broken"}
  <2> HIDE DEF g
  <2> QED
    BY <1>4 DEF GivenTo
<1> HIDE DEF g
<1>7. /\ DOMAIN page' = DemoFields
      /\ \A x \in DemoFields \ {"name", "clicks"} :
           page'[x] = IF x \in DOMAIN f THEN f[x] ELSE IF x \in DOMAIN g THEN g[x] ELSE page[x]
  <2>1. "name" \notin DOMAIN f \cup DOMAIN g /\ "clicks" \notin DOMAIN f \cup DOMAIN g
    BY <1>6
  <2>2. DOMAIN page = DemoFields
    BY <1>1
  <2> QED
    BY ONLY <1>5, <2>1, <2>2, DemoLaid
<1>8. /\ page'.match = 1 /\ page'.names = DemoTeams
      /\ page'.index = IF "index" \in DOMAIN f THEN f.index ELSE page.index
      /\ page'.streamed = es /\ page'.started = started /\ page'.paused = paused
  <2> DEFINE Field(x) == IF x \in DOMAIN f THEN f[x] ELSE IF x \in DOMAIN g THEN g[x] ELSE page[x]
  <2>1. /\ page'.match = Field("match") /\ page'.names = Field("names") /\ page'.index = Field("index")
        /\ page'.streamed = Field("streamed") /\ page'.started = Field("started") /\ page'.paused = Field("paused")
    BY <1>7, SMTT(30) DEF DemoFields
  <2>2. \A x \in {"match", "names", "index", "streamed", "started", "paused"} : x \notin DOMAIN g
    BY <1>6
  <2>3. "match" \notin DOMAIN f /\ "names" \notin DOMAIN f
    OBVIOUS
  <2>4. Field("match") = 1 /\ Field("names") = DemoTeams
    BY <1>1, <2>2, <2>3
  <2>5. Field("index") = IF "index" \in DOMAIN f THEN f.index ELSE page.index
    BY <2>2
  <2>6. Field("streamed") = es /\ Field("started") = started /\ Field("paused") = paused
    BY <2>2
  <2> HIDE DEF Field
  <2> QED
    BY <2>1, <2>4, <2>5, <2>6
<1>9. /\ page'.heard = IF "heard" \in DOMAIN g THEN g.heard ELSE page.heard
      /\ page'.home = IF "home" \in DOMAIN g THEN g.home ELSE page.home
      /\ page'.away = IF "away" \in DOMAIN g THEN g.away ELSE page.away
      /\ page'.processed = IF "processed" \in DOMAIN g THEN g.processed ELSE page.processed
      /\ page'.broken = IF "broken" \in DOMAIN g THEN g.broken ELSE page.broken
  BY <1>7 DEF DemoFields
<1>10. /\ page'.index \in 0 .. Len(Script) /\ \A k \in DOMAIN es : es[k] <= page'.index + 1
  <2>1. page'.index >= page.index /\ page'.index \in 0 .. Len(Script)
    BY <1>1, <1>2, <1>8
  <2>2. \A k \in DOMAIN es : es[k] \in Nat
    OBVIOUS
  <2>3. "index" \in DOMAIN f => f.index = page'.index
    BY <1>8
  <2> QED
    BY <1>1, <2>1, <2>2, <2>3
<1>11. Script' = Script /\ DOMAIN Script' = DOMAIN Script /\ DemoTeams' = DemoTeams
  BY <1>1, <1>8 DEF Script, DemoTeams
<1>12. \A H, team : GoalsIn(team, H)' = GoalsIn(team, H) /\ GoalIds(H)' = GoalIds(H)
  BY <1>11 DEF GoalsIn, Goals, GoalIds
<1>13. Streams'
  BY <1>8, <1>10 DEF Streams, Ascends
<1>14. DemoCounted
  BY DEF DemoInv
\* All of it is given.
<1>15. CASE DOMAIN g = {"heard", "home", "away", "processed"} /\ started /\ ~paused
  <2>1. /\ \A k \in DOMAIN es : es[k] \in DOMAIN Script
        /\ g.heard = es /\ g.home = DemoScore(es).home /\ g.away = DemoScore(es).away
        /\ g.processed = DemoScore(es).processed
    BY <1>4, <1>15 DEF GivenTo
  <2>2. es \in Seq(DOMAIN Script)
    <3>1. Len(es) \in Nat /\ DOMAIN es = 1 .. Len(es)
      OBVIOUS
    <3>2. es \in [1 .. Len(es) -> DOMAIN Script]
      BY <2>1, <3>1
    <3> QED
      BY <3>1, <3>2, IsASeq
  <2>3. /\ g.processed = GoalIds(ToSet(es))
        /\ g.home = Cardinality(GoalsIn(DemoTeams[1], ToSet(es)))
        /\ g.away = Cardinality(GoalsIn(DemoTeams[2], ToSet(es)))
    BY <1>1, <1>3, <1>14, <2>1, <2>2, StreamCounted
  <2>4. /\ page'.heard = es /\ page'.home = g.home /\ page'.away = g.away
        /\ page'.processed = g.processed /\ page'.broken = FALSE
    BY <1>1, <1>9, <1>15, <2>1
  <2>5. DemoTyped'
    BY <1>7, <1>8, <1>10, <1>11, <2>2, <2>4 DEF DemoTyped
  <2>6. GivenOK'
    <3>1. Len(es) \in Nat
      OBVIOUS
    <3> QED
      BY <1>8, <2>4, <3>1 DEF GivenOK, StartOf
  <2>7. DemoCounted'
    BY <1>11, <1>12, <2>3, <2>4 DEF DemoCounted
  <2> QED
    BY <1>13, <2>5, <2>6, <2>7 DEF DemoInv
\* An entry past the recording's end was the last step's.
<1>16. CASE DOMAIN g = {"broken"} /\ started /\ ~paused
  <2>1. (\E k \in DOMAIN es : es[k] \notin DOMAIN Script) /\ g.broken = TRUE
    BY <1>4, <1>16 DEF GivenTo
  <2>2. PICK k \in DOMAIN es : es[k] \notin DOMAIN Script
    BY <2>1
  <2>3. es[k] \in Nat \ {0} /\ es[k] > Len(Script) /\ es[k] <= page'.index + 1
    BY <1>2, <1>10, <2>2
  <2>4. page'.index = Len(Script)
    BY <1>2, <1>10, <2>3
  <2>5. page'.heard = page.heard /\ page'.home = page.home /\ page'.away = page.away
        /\ page'.processed = page.processed /\ page'.broken = TRUE
    BY <1>9, <1>16, <2>1
  <2>6. DemoTyped'
    BY <1>1, <1>7, <1>8, <1>10, <1>11, <2>5 DEF DemoTyped
  <2>7. GivenOK'
    BY <1>3, <1>8, <1>11, <2>4, <2>5 DEF GivenOK, StartOf
  <2>8. DemoCounted'
    BY <1>11, <1>12, <1>14, <2>5 DEF DemoCounted
  <2> QED
    BY <1>13, <2>6, <2>7, <2>8 DEF DemoInv
<1>17. CASE ~(started /\ ~paused)
  <2>1. DOMAIN g = {}
    BY <1>4, <1>17
  <2>2. page'.heard = page.heard /\ page'.home = page.home /\ page'.away = page.away
        /\ page'.processed = page.processed /\ page'.broken = FALSE
    BY <1>1, <1>9, <2>1
  <2>3. DemoTyped'
    BY <1>1, <1>7, <1>8, <1>10, <1>11, <2>2 DEF DemoTyped
  <2>4. GivenOK'
    BY <1>3, <1>8, <1>17, <2>2 DEF GivenOK, StartOf
  <2>5. DemoCounted'
    BY <1>11, <1>12, <1>14, <2>2 DEF DemoCounted
  <2> QED
    BY <1>13, <2>3, <2>4, <2>5 DEF DemoInv
<1> QED
  BY <1>4, <1>15, <1>16, <1>17 DEF GivenTo

\* An entry further on goes up from those before.
LEMMA AscendsOn ==
  ASSUME NEW s \in Seq(Nat \ {0}), NEW n \in Nat, NEW x \in Nat \ {0}, Ascends(s), x >= n + 1, x <= n + 2,
         \A k \in DOMAIN s : s[k] <= n + 1
  PROVE  LET t == Append(s, x) IN
           /\ t \in Seq(Nat \ {0}) /\ StartOf(s, t) /\ Ascends(t)
           /\ \A k \in DOMAIN t : t[k] <= n + 2
<1> DEFINE t == Append(s, x)
<1>1. /\ t \in Seq(Nat \ {0}) /\ Len(t) = Len(s) + 1 /\ Len(s) \in Nat /\ t[Len(s) + 1] = x
      /\ DOMAIN t = 1 .. (Len(s) + 1) /\ DOMAIN s = 1 .. Len(s)
  OBVIOUS
<1>2. \A i \in 1 .. Len(s) : t[i] = s[i] /\ s[i] \in Nat /\ s[i] <= n + 1
  BY <1>1
<1> HIDE DEF t
<1>3. StartOf(s, t)
  BY <1>1, <1>2 DEF StartOf
<1>4. \A k \in DOMAIN t : t[k] <= n + 2
  <2>1. ASSUME NEW k \in DOMAIN t PROVE t[k] <= n + 2
    <3>1. CASE k = Len(s) + 1
      BY <1>1, <3>1
    <3>2. CASE k # Len(s) + 1
      <4>1. k \in 1 .. Len(s)
        BY <1>1, <2>1, <3>2
      <4>2. t[k] = s[k] /\ s[k] \in Nat /\ s[k] <= n + 1
        BY <1>2, <4>1
      <4> QED
        BY <4>2
    <3> QED
      BY <3>1, <3>2
  <2> QED
    BY <2>1
<1>5. Ascends(t)
  <2>1. ASSUME NEW k \in DOMAIN t, NEW j \in 1 .. (k - 1) PROVE t[j] <= t[k]
    <3>1. k \in Nat /\ k <= Len(s) + 1 /\ j \in 1 .. Len(s)
      BY <1>1, <2>1, SMTT(30)
    <3>2. t[j] = s[j] /\ s[j] \in Nat /\ s[j] <= n + 1
      BY <1>2, <3>1
    <3>3. CASE k = Len(s) + 1
      <4>1. t[k] = x
        BY <1>1, <3>3
      <4> QED
        BY <3>2, <4>1
    <3>4. CASE k # Len(s) + 1
      <4>1. k \in 1 .. Len(s)
        BY <1>1, <2>1, <3>1, <3>4, SMTT(30)
      <4>2. t[k] = s[k] /\ k \in DOMAIN s
        BY <1>1, <1>2, <4>1
      <4>3. s[j] <= s[k]
        BY <2>1, <4>2 DEF Ascends
      <4> QED
        BY <3>2, <4>2, <4>3
    <3> QED
      BY <3>3, <3>4
  <2> QED
    BY <2>1 DEF Ascends
<1> QED
  BY <1>1, <1>3, <1>4, <1>5 DEF t

LEMMA DemoStep ==
  ASSUME On("demo"), Named, DemoInv, DemoNext
  PROVE  DemoInv'
<1>1. /\ DOMAIN page = DemoFields /\ page.index \in 0 .. Len(Script) /\ Len(Script) \in Nat
      /\ page.streamed \in Seq(Nat \ {0}) /\ {page.started, page.paused, page.broken} \subseteq BOOLEAN
      /\ Ascends(page.streamed) /\ \A k \in DOMAIN page.streamed : page.streamed[k] <= page.index + 1
  BY DemoKnown, ScriptKnown DEF DemoInv, DemoTyped, Streams
<1>2. Len(page.streamed) \in Nat /\ StartOf(page.streamed, page.streamed)
  BY <1>1 DEF StartOf
<1>3. CASE StreamTick
  <2>1. PICK skip \in {0, 1} :
          LET streamed == Append(page.streamed, page.index + 1 + skip) IN
            Change([index |-> page.index + 1, streamed |-> streamed]
                   ++ Follows(streamed, page.started, page.paused))
    BY <1>3 DEF StreamTick
  <2>2. page.index < Len(Script) /\ ~page.broken
    BY <1>3 DEF StreamTick
  <2> DEFINE x == page.index + 1 + skip
             streamed == Append(page.streamed, x)
             f == [index |-> page.index + 1, streamed |-> streamed]
  <2>3. Change(f ++ Follows(streamed, page.started, page.paused))
    BY <2>1
  <2>4. x \in Nat \ {0} /\ x >= page.index + 1 /\ x <= page.index + 2
    BY <1>1
  <2> HIDE DEF x
  <2> DEFINE s == page.streamed  n == page.index
  <2>11. /\ s \in Seq(Nat \ {0}) /\ n \in Nat /\ Ascends(s) /\ \A k \in DOMAIN s : s[k] <= n + 1
         /\ x \in Nat \ {0} /\ x >= n + 1 /\ x <= n + 2 /\ streamed = Append(s, x)
    BY <1>1, <2>4
  <2> HIDE DEF s, n, streamed
  <2>12. streamed \in Seq(Nat \ {0}) /\ StartOf(s, streamed) /\ Ascends(streamed)
         /\ \A k \in DOMAIN streamed : streamed[k] <= n + 2
    BY <2>11, AscendsOn
  <2>5. /\ streamed \in Seq(Nat \ {0}) /\ StartOf(page.streamed, streamed) /\ Ascends(streamed)
        /\ \A k \in DOMAIN streamed : streamed[k] <= page.index + 2
    BY <2>12 DEF s, n
  <2> HIDE DEF streamed
  <2>10. /\ DOMAIN f = {"index", "streamed"} /\ f.index = page.index + 1 /\ f.streamed = streamed
         /\ page.index + 1 \in page.index .. Len(Script) /\ page.index + 2 = f.index + 1
    BY <1>1, <2>2
  <2> HIDE DEF f
  <2>13. /\ page.started \in BOOLEAN /\ page.paused \in BOOLEAN
         /\ DOMAIN f \subseteq {"index", "streamed", "started", "paused"}
         /\ "started" \notin DOMAIN f /\ "paused" \notin DOMAIN f /\ "streamed" \in DOMAIN f
         /\ f.index \in page.index .. Len(Script)
         /\ \A k \in DOMAIN streamed : "index" \in DOMAIN f /\ streamed[k] <= f.index + 1
    BY <1>1, <2>5, <2>10
  <2> QED
    BY <2>2, <2>3, <2>5, <2>10, <2>13, FollowsStream
<1>4. CASE StartDemo
  <2> DEFINE f == [started |-> TRUE, paused |-> FALSE]
  <2>1. ~page.broken
    BY <1>4 DEF StartDemo, Controls
  <2>2. Click(f ++ Follows(page.streamed, TRUE, FALSE))
    BY <1>4 DEF StartDemo
  <2>3. DOMAIN f = {"started", "paused"} /\ f.started = TRUE /\ f.paused = FALSE
    OBVIOUS
  <2> HIDE DEF f
  <2> QED
    BY <1>1, <1>2, <2>1, <2>2, <2>3, FollowsStream
<1>5. CASE PauseDemo
  <2> DEFINE f == [paused |-> ~page.paused]
  <2>1. ~page.broken /\ page.started = TRUE
    BY <1>1, <1>5 DEF PauseDemo, Controls
  <2>2. Click(f ++ Follows(page.streamed, TRUE, ~page.paused))
    BY <1>5 DEF PauseDemo
  <2>3. DOMAIN f = {"paused"} /\ f.paused = ~page.paused
    OBVIOUS
  <2> HIDE DEF f
  <2> QED
    BY <1>1, <1>2, <2>1, <2>2, <2>3, FollowsStream
<1>6. CASE ResetDemo
  <2>1. Click(DemoMounted) /\ DemoTeams' = DemoTeams
    BY <1>6 DEF ResetDemo, DemoTeams
  <2>2. DemoFresh'
    BY <1>1, <2>1 DEF Click, Change, ++, DemoMounted, DemoFresh, DemoFields
  <2> QED
    BY <2>2, FreshAgain
<1> QED
  BY <1>3, <1>4, <1>5, <1>6 DEF DemoNext

LEMMA DemoNamed == DemoTeams # None
<1>1. 1 \in DOMAIN Scripts
  <2> DEFINE A == ToSet(Scripts)
  <2>1. Scripts \in Seq(A) /\ Scripts # <<>>
    BY PlotAssumption
  <2> HIDE DEF A
  <2> QED
    BY <2>1
<1> QED
  BY <1>1, PlotAssumption DEF DemoTeams

LEMMA DemoInvMeans == DemoInv => DemoScoreIsOfEventsShown
<1> SUFFICES ASSUME DemoInv PROVE DemoScoreIsOfEventsShown
  OBVIOUS
<1>1. /\ page.match = 1 /\ page.names = DemoTeams /\ page.heard \in Seq(DOMAIN Script)
      /\ page.streamed \in Seq(Nat \ {0})
  BY DEF DemoInv, DemoTyped
<1>2. MatchKnown /\ Names = DemoTeams
  BY <1>1, DemoKnown
<1>3. \A t \in {1, 2} : Scoreboard.score[t] = Cardinality(Goals(DemoTeams[t]) \cap ToSet(page.heard))
  <2>1. /\ page.home = Cardinality(GoalsIn(DemoTeams[1], ToSet(page.heard)))
        /\ page.away = Cardinality(GoalsIn(DemoTeams[2], ToSet(page.heard)))
    BY DEF DemoInv, DemoCounted
  <2>2. /\ page.home = Cardinality(Goals(DemoTeams[1]) \cap ToSet(page.heard))
        /\ page.away = Cardinality(Goals(DemoTeams[2]) \cap ToSet(page.heard))
    BY <2>1 DEF GoalsIn
  <2>3. Scoreboard.score[1] = page.home /\ Scoreboard.score[2] = page.away
    BY DEF Scoreboard
  <2> QED
    BY <2>2, <2>3
<1>4. /\ StartOf(page.heard, page.streamed) /\ Ascends(page.streamed)
      /\ page.started /\ ~page.paused /\ ~page.broken => page.heard = page.streamed
      /\ page.broken => page.index = Len(Script)
  BY DEF DemoInv, GivenOK, Streams
<1>5. /\ Len(page.heard) \in Nat /\ DOMAIN page.heard = 1 .. Len(page.heard)
      /\ Len(page.streamed) \in Nat /\ DOMAIN page.streamed = 1 .. Len(page.streamed)
  BY <1>1
<1>6. \A k \in DOMAIN page.heard : k \in DOMAIN page.streamed /\ page.heard[k] = page.streamed[k]
  BY <1>4, <1>5 DEF StartOf
<1>7. \A k \in DOMAIN page.heard : \A j \in 1 .. (k - 1) : page.heard[j] <= page.heard[k]
  <2>1. \A k \in DOMAIN page.heard : \A j \in 1 .. (k - 1) : j \in DOMAIN page.heard
    BY <1>5
  <2> QED
    BY <1>4, <1>6, <2>1 DEF Ascends
<1>8. IsPrefix(page.heard, page.streamed)
  <2> DEFINE h == page.heard  s == page.streamed  a == SubSeq(h, 1, Len(h))  b == SubSeq(s, 1, Len(h))
  <2>1. Len(h) <= Len(s)
    BY <1>4 DEF StartOf
  <2>2. /\ a \in Seq(DOMAIN Script) /\ Len(a) = Len(h) /\ \A k \in 1 .. Len(h) : a[k] = h[k]
    BY <1>1, <1>5
  <2>3. /\ b \in Seq(Nat \ {0}) /\ Len(b) = Len(h) /\ \A k \in 1 .. Len(h) : b[k] = s[k]
    BY <1>1, <1>5, <2>1
  <2> HIDE DEF a, b
  <2>4. a = b
    BY <1>5, <1>6, <2>2, <2>3, SMTT(30)
  <2> QED
    BY <2>1, <2>4 DEF IsPrefix, a, b
<1>9. ASSUME NEW k \in DemoPitch, NEW j \in 1 .. (k - 1)
      PROVE  LET e == Script[page.heard[k]]  d == Script[page.heard[j]] IN
               /\ e.player # None => ~(Dismisses(d) /\ d.player = e.player)
               /\ \A m \in DemoDrawn(e).markers : m.colour \in {"blue", "white", "yellow"}
  <2> DEFINE e == Script[page.heard[k]]  d == Script[page.heard[j]]
  <2>1. k \in OnPitch
    BY DEF DemoPitch
  <2>2. e.player # None => ~(Dismisses(d) /\ d.player = e.player)
    BY <1>1, <1>2, <2>1, NobodyAfterCard
  <2>3. page.heard[k] \in DOMAIN Script
    BY <1>1, <2>1, OnPitchRelevant
  <2>4. EventOK(e, {Names[1], Names[2]})
    BY <1>2, <2>3, ScriptKnown
  <2> HIDE DEF e, d
  <2>6. \A m \in Drawn(e).markers : m.colour = "yellow" \/ (m.colour = Colour(e.team) /\ e.team \in {Names[1], Names[2]})
    BY <2>4, DrawnOnPitch
  <2>7. TeamNames = Names
    BY <1>1, <1>2, DemoNamed DEF TeamNames
  <2>8. e.team \in {Names[1], Names[2]} => Colour(e.team) \in {"blue", "white"}
    BY <2>7 DEF Colour
  <2> QED
    BY <2>2, <2>6, <2>8 DEF DemoDrawn, e, d
<1> QED
  BY <1>3, <1>4, <1>7, <1>8, <1>9 DEF DemoScoreIsOfEventsShown

-----------------------------------------------------------------------------
(* Every page by itself *)

\* A page that opens is the one of its name ...
LEMMA OpensAs ==
  PagesInit =>
    /\ On("notifications") => NotesInit
    /\ On("search") => SearchInit
    /\ On("live") => LiveInit
    /\ On("plot") => PlotInit
    /\ On("start") => StartInit
    /\ On("register") => RegisterInit
    /\ On("profile") => ProfileInit
    /\ On("settings") => SettingsInit
    /\ On("list") => ListInit
    /\ On("thing") => ThingInit
    /\ On("match") => MatchInit
    /\ On("shop") => ShopInit
    /\ On("demo") => DemoInit
<1>1. NotesInit => page.name = "notifications"
  <2>1. ASSUME NotesInit PROVE page.name = "notifications"
    <3>1. PICK view, stored, asked :
            page = [name |-> "notifications", clicks |-> 0, view |-> view, stored |-> stored, pushes |-> <<>>,
                    made |-> 1, list |-> <<>>, unread |-> 0, loading |-> TRUE, busy |-> FALSE, selected |-> {},
                    onlyUnread |-> FALSE, swept |-> {}, asked |-> asked]
      BY <2>1, Zenon DEF NotesInit
    <3> QED
      BY <3>1
  <2> QED
    BY <2>1
<1>2. (SearchInit => page.name = "search") /\ (LiveInit => page.name = "live")
  <2>1. ASSUME SearchInit PROVE page.name = "search"
    <3>1. PICK q, history, recent, stored, loading, asked :
            page = [name |-> "search", clicks |-> 0,
                    query |-> q, results |-> None, pages |-> 0, loading |-> loading, error |-> FALSE,
                    address |-> q, goes |-> None, panel |-> FALSE, filters |-> FALSE,
                    text |-> q, typing |-> FALSE, suggested |-> None, asking |-> {},
                    recent |-> recent, stored |-> stored, known |-> <<>>, boxRecent |-> history, asked |-> asked]
      BY <2>1, Zenon DEF SearchInit
    <3> QED
      BY <3>1
  <2>2. ASSUME LiveInit PROVE page.name = "live"
    <3>1. PICK stored, asked :
            page = [name |-> "live", clicks |-> 0, live |-> 1, pushed |-> 0, cached |-> {},
                    match |-> None, stats |-> stored, loading |-> TRUE, error |-> FALSE, refreshing |-> FALSE,
                    connected |-> FALSE, groups |-> {}, leaving |-> {}, listener |-> None,
                    stored |-> stored, old |-> FALSE, storedMatch |-> None, swapped |-> FALSE, asked |-> asked]
      BY <2>2, Zenon DEF LiveInit
    <3> QED
      BY <3>1
  <2> QED
    BY <2>1, <2>2
<1>3. PlotInit => page.name = "plot"
  BY DEF PlotInit, Mounted, ++
<1>4. StartInit => page.name = "start"
  BY DEF StartInit
<1>5. RegisterInit => page.name = "register"
  <2>1. ASSUME RegisterInit PROVE page.name = "register"
    <3>1. PICK form : page = [name |-> "register", clicks |-> 0, form |-> form, errors |-> {}, loading |-> FALSE,
              serverError |-> FALSE, shown |-> {}, sent |-> None, sends |-> 0, accounts |-> {}, gone |-> FALSE]
      BY <2>1, Zenon DEF RegisterInit
    <3> QED
      BY <3>1
  <2> QED
    BY <2>1
<1>6. ProfileInit => page.name = "profile"
  BY DEF ProfileInit, ++, Shows
<1>7. SettingsInit => page.name = "settings"
  BY DEF SettingsInit, ++, LoadedSettings
<1>8. ListInit => page.name = "list"
  BY DEF ListInit, ListMounted, ++
<1>9. (ThingInit => page.name = "thing") /\ (ViewOpen => page.name = "simulationview")
  BY DEF ThingInit, ViewOpen
<1>10. MatchInit => page.name = "match"
  BY DEF MatchInit, MatchOpened, MatchMounted, ++
<1>11. ShopInit => page.name = "shop"
  BY DEF ShopInit, ListOpened, ++
<1>12. DemoInit => page.name = "demo"
  BY DEF DemoInit, DemoMounted, ++
<1> QED
  BY <1>1, <1>2, <1>3, <1>4, <1>5, <1>6, <1>7, <1>8, <1>9, <1>10, <1>11, <1>12 DEF PagesInit, On

\* ... and takes its own steps.
LEMMA StepsAs ==
  [PagesNext]_<<page, pageVars>> =>
    /\ On("notifications") => NotesNext \/ UNCHANGED page
    /\ On("search") => SearchNext \/ UNCHANGED page
    /\ On("live") => LiveNext \/ UNCHANGED page
    /\ On("plot") => PlotNext \/ UNCHANGED page
    /\ On("start") => StartNext \/ UNCHANGED page
    /\ On("register") => RegisterNext \/ UNCHANGED page
    /\ On("profile") => ProfileNext \/ UNCHANGED page
    /\ On("settings") => SettingsNext \/ UNCHANGED page
    /\ On("list") => ListNext \/ UNCHANGED page
    /\ On("thing") => ThingNext \/ UNCHANGED page
    /\ On("match") => MatchNext \/ UNCHANGED page
    /\ On("shop") => ShopNext \/ UNCHANGED page
    /\ On("demo") => DemoNext \/ UNCHANGED page
<1>1. /\ NotesNext => On("notifications")
      /\ SearchNext => On("search")
      /\ LiveNext => On("live")
      /\ PlotNext => On("plot")
      /\ StartNext => On("start")
      /\ RegisterNext => On("register")
      /\ ProfileNext => On("profile")
      /\ SettingsNext => On("settings")
      /\ ListNext => On("list")
      /\ ThingNext => On("thing")
      /\ MatchNext => On("match")
      /\ ShopNext => On("shop")
      /\ DemoNext => On("demo")
  BY DEF NotesNext, SearchNext, LiveNext, PlotNext, StartNext, RegisterNext, ProfileNext, SettingsNext, ListNext, ThingNext, MatchNext, ShopNext, DemoNext
<1> QED
  BY <1>1, Zenon DEF PagesNext, On

\* A page that is open after a step, other than that of a match, was open before it.
LEMMA StaysOpen ==
  ASSUME Named, [PagesNext]_<<page, pageVars>>, NEW x, x # "match", page'.name = x
  PROVE  Named' /\ On(x)
<1>1. \A c, n : MatchOpened(c, n).name = "match"
  BY DEF MatchOpened, MatchMounted, ++
<1> QED
  BY <1>1, PageTurns DEF On

LEMMA StartAlone ==
  /\ PagesInit => Named /\ (On("start") => StartInv)
  /\ Named /\ (On("start") => StartInv) /\ [PagesNext]_<<page, pageVars>> => (Named /\ (On("start") => StartInv))'
<1>1. PagesInit => Named /\ (On("start") => StartInv)
  BY PagesNamed, OpensAs, StartInitInv
<1>2. ASSUME Named, On("start") => StartInv, [PagesNext]_<<page, pageVars>>, On("start")' PROVE StartInv'
  <2>1. On("start") /\ StartInv
    BY <1>2, StaysOpen DEF On
  <2>2. StartNext \/ UNCHANGED page
    BY <1>2, <2>1, StepsAs
  <2>3. CASE UNCHANGED page
    BY <2>1, <2>3 DEF StartInv, StartTyped, SidesOK, PostedOK, StartedOK
  <2> QED
    BY <2>1, <2>2, <2>3, StartStep
<1> QED
  BY <1>1, <1>2, PageTurns

LEMMA RegisterAlone ==
  /\ PagesInit => Named /\ (On("register") => RegisterInv)
  /\ Named /\ (On("register") => RegisterInv) /\ [PagesNext]_<<page, pageVars>> => (Named /\ (On("register") => RegisterInv))'
<1>1. PagesInit => Named /\ (On("register") => RegisterInv)
  BY PagesNamed, OpensAs, RegisterInitInv
<1>2. ASSUME Named, On("register") => RegisterInv, [PagesNext]_<<page, pageVars>>, On("register")' PROVE RegisterInv'
  <2>1. On("register") /\ RegisterInv
    BY <1>2, StaysOpen DEF On
  <2>2. RegisterNext \/ UNCHANGED page
    BY <1>2, <2>1, StepsAs
  <2>3. CASE UNCHANGED page
    BY <2>1, <2>3 DEF RegisterInv, RegisterTyped, SentOK, AccountsOK
  <2> QED
    BY <2>1, <2>2, <2>3, RegisterStep
<1> QED
  BY <1>1, <1>2, PageTurns

LEMMA ProfileAlone ==
  /\ PagesInit => Named /\ (On("profile") => ProfileInv)
  /\ Named /\ (On("profile") => ProfileInv) /\ [PagesNext]_<<page, pageVars>> => (Named /\ (On("profile") => ProfileInv))'
<1>1. PagesInit => Named /\ (On("profile") => ProfileInv)
  BY PagesNamed, OpensAs, ProfileInitInv
<1>2. ASSUME Named, On("profile") => ProfileInv, [PagesNext]_<<page, pageVars>>, On("profile")' PROVE ProfileInv'
  <2>1. On("profile") /\ ProfileInv
    BY <1>2, StaysOpen DEF On
  <2>2. ProfileNext \/ UNCHANGED page
    BY <1>2, <2>1, StepsAs
  <2>3. CASE UNCHANGED page
    BY <2>1, <2>3 DEF ProfileInv, ProfileTyped, SavingOK, SavedNow, HeldOK
  <2> QED
    BY <2>1, <2>2, <2>3, ProfileStep
<1> QED
  BY <1>1, <1>2, PageTurns

LEMMA LiveAlone ==
  /\ PagesInit => Named /\ (On("live") => LiveInv)
  /\ Named /\ (On("live") => LiveInv) /\ [PagesNext]_<<page, pageVars>> => (Named /\ (On("live") => LiveInv))'
<1>1. PagesInit => Named /\ (On("live") => LiveInv)
  BY PagesNamed, OpensAs, LiveInitInv
<1>2. ASSUME Named, On("live") => LiveInv, [PagesNext]_<<page, pageVars>>, On("live")' PROVE LiveInv'
  <2>1. On("live") /\ LiveInv
    BY <1>2, StaysOpen DEF On
  <2>2. LiveNext \/ UNCHANGED page
    BY <1>2, <2>1, StepsAs
  <2>3. CASE UNCHANGED page
    BY <2>1, <2>3 DEF LiveInv, FollowsMatch
  <2> QED
    BY <2>1, <2>2, <2>3, LiveStep
<1> QED
  BY <1>1, <1>2, PageTurns

LEMMA SearchAlone ==
  /\ PagesInit => Named /\ (On("search") => SearchInv)
  /\ Named /\ (On("search") => SearchInv) /\ [PagesNext]_<<page, pageVars>> => (Named /\ (On("search") => SearchInv))'
<1>1. PagesInit => Named /\ (On("search") => SearchInv)
  BY PagesNamed, OpensAs, SearchInitInv
<1>2. ASSUME Named, On("search") => SearchInv, [PagesNext]_<<page, pageVars>>, On("search")' PROVE SearchInv'
  <2>1. On("search") /\ SearchInv
    BY <1>2, StaysOpen DEF On
  <2>2. SearchNext \/ UNCHANGED page
    BY <1>2, <2>1, StepsAs
  <2>3. CASE UNCHANGED page
    BY <2>1, <2>3 DEF SearchInv, SearchTyped, AskedOK, ShownOK
  <2> QED
    BY <2>1, <2>2, <2>3, SearchStep
<1> QED
  BY <1>1, <1>2, PageTurns

LEMMA SettingsAlone ==
  /\ PagesInit => Named /\ (On("settings") => SettingsInv)
  /\ Named /\ (On("settings") => SettingsInv) /\ [PagesNext]_<<page, pageVars>> => (Named /\ (On("settings") => SettingsInv))'
<1>1. PagesInit => Named /\ (On("settings") => SettingsInv)
  BY PagesNamed, OpensAs, SettingsInitInv
<1>2. ASSUME Named, On("settings") => SettingsInv, [PagesNext]_<<page, pageVars>>, On("settings")' PROVE SettingsInv'
  <2>1. On("settings") /\ SettingsInv
    BY <1>2, StaysOpen DEF On
  <2>2. SettingsNext \/ UNCHANGED page
    BY <1>2, <2>1, StepsAs
  <2>3. CASE UNCHANGED page
    BY <2>1, <2>3 DEF SettingsInv, SettingsTyped, SettingsShownAreSaved, On
  <2> QED
    BY <2>1, <2>2, <2>3, SettingsStep
<1> QED
  BY <1>1, <1>2, PageTurns

LEMMA ShopAlone ==
  /\ PagesInit => Named /\ (On("shop") => ShopInv)
  /\ Named /\ (On("shop") => ShopInv) /\ [PagesNext]_<<page, pageVars>> => (Named /\ (On("shop") => ShopInv))'
<1>1. PagesInit => Named /\ (On("shop") => ShopInv)
  BY PagesNamed, OpensAs, ShopInitInv
<1>2. ASSUME Named, On("shop") => ShopInv, [PagesNext]_<<page, pageVars>>, On("shop")' PROVE ShopInv'
  <2>1. On("shop") /\ ShopInv
    BY <1>2, StaysOpen DEF On
  <2>2. ShopNext \/ UNCHANGED page
    BY <1>2, <2>1, StepsAs
  <2>3. CASE UNCHANGED page
    BY <2>1, <2>3 DEF ShopInv, ShopTyped, InList, InProduct
  <2> QED
    BY <2>1, <2>2, <2>3, ShopStep
<1> QED
  BY <1>1, <1>2, PageTurns

LEMMA NotesAlone ==
  /\ PagesInit => Named /\ (On("notifications") => NotesInv)
  /\ Named /\ (On("notifications") => NotesInv) /\ [PagesNext]_<<page, pageVars>> => (Named /\ (On("notifications") => NotesInv))'
<1>1. PagesInit => Named /\ (On("notifications") => NotesInv)
  BY PagesNamed, OpensAs, NotesInitInv
<1>2. ASSUME Named, On("notifications") => NotesInv, [PagesNext]_<<page, pageVars>>, On("notifications")' PROVE NotesInv'
  <2>1. On("notifications") /\ NotesInv
    BY <1>2, StaysOpen DEF On
  <2>2. NotesNext \/ UNCHANGED page
    BY <1>2, <2>1, StepsAs
  <2>3. CASE UNCHANGED page
    BY <2>1, <2>3, ZenonT(60) DEF NotesInv, NotesTyped, MadeOnly, Made, AnswersHold, AnswerHolds, RowsSettled, ReadSettled, Settled
  <2> QED
    BY <2>1, <2>2, <2>3, NotesStep
<1> QED
  BY <1>1, <1>2, PageTurns

LEMMA ListAlone ==
  /\ PagesInit => Named /\ (On("list") => ListInv)
  /\ Named /\ (On("list") => ListInv) /\ [PagesNext]_<<page, pageVars>> => (Named /\ (On("list") => ListInv))'
<1>1. PagesInit => Named /\ (On("list") => ListInv)
  BY PagesNamed, OpensAs, ListInitInv
<1>2. ASSUME Named, On("list") => ListInv, [PagesNext]_<<page, pageVars>>, On("list")' PROVE ListInv'
  <2>1. On("list") /\ ListInv
    BY <1>2, StaysOpen DEF On
  <2>2. ListNext \/ UNCHANGED page
    BY <1>2, <2>1, StepsAs
  <2>3. CASE UNCHANGED page
    BY <2>1, <2>3 DEF ListInv, ListTyped, ListFiltered, ListErrors, ItemLists
  <2> QED
    BY <1>2, <2>1, <2>2, <2>3, ListStep DEF On
<1> QED
  BY <1>1, <1>2, PageTurns

LEMMA ThingAlone ==
  /\ PagesInit => Named /\ (On("thing") => ThingInv)
  /\ Named /\ (On("thing") => ThingInv) /\ [PagesNext]_<<page, pageVars>> => (Named /\ (On("thing") => ThingInv))'
<1>1. PagesInit => Named /\ (On("thing") => ThingInv)
  BY PagesNamed, OpensAs, ThingInitInv
<1>2. ASSUME Named, On("thing") => ThingInv, [PagesNext]_<<page, pageVars>>, On("thing")' PROVE ThingInv'
  <2>1. On("thing") /\ ThingInv
    BY <1>2, StaysOpen DEF On
  <2>2. ThingNext \/ UNCHANGED page
    BY <1>2, <2>1, StepsAs
  <2>3. CASE UNCHANGED page
    BY <2>1, <2>3 DEF ThingInv
  <2> QED
    BY <2>1, <2>2, <2>3, ThingStep
<1> QED
  BY <1>1, <1>2, PageTurns

\* The page of a match is opened by a list, or was open.
LEMMA MatchAlone ==
  /\ PagesInit => Named /\ (On("match") => MatchInv)
  /\ Named /\ (On("match") => MatchInv) /\ [PagesNext]_<<page, pageVars>> => (Named /\ (On("match") => MatchInv))'
<1>1. PagesInit => Named /\ (On("match") => MatchInv)
  BY PagesNamed, OpensAs, MatchInitInv
<1>2. ASSUME Named, On("match") => MatchInv, [PagesNext]_<<page, pageVars>>, On("match")' PROVE MatchInv'
  <2>1. CASE \E c, n : page' = MatchOpened(c, n)
    BY <2>1, MatchOpenedInv
  <2>2. CASE page'.name = page.name
    <3>1. On("match") /\ MatchInv
      BY <1>2, <2>2 DEF On
    <3>2. MatchNext \/ UNCHANGED page
      BY <1>2, <3>1, StepsAs
    <3>3. CASE UNCHANGED page
      BY <3>1, <3>3 DEF MatchInv, MatchTyped, DetailsOK, RefreshOK, OverOK
    <3> QED
      BY <3>1, <3>2, <3>3, MatchStep
  <2> QED
    BY <1>2, <2>1, <2>2, PageTurns
<1> QED
  BY <1>1, <1>2, PageTurns

LEMMA PlotAlone ==
  /\ PagesInit => Named /\ (On("plot") => PlotInv)
  /\ Named /\ (On("plot") => PlotInv) /\ [PagesNext]_<<page, pageVars>> => (Named /\ (On("plot") => PlotInv))'
<1>1. PagesInit => Named /\ (On("plot") => PlotInv)
  BY PagesNamed, OpensAs, PlotInitInv
<1>2. ASSUME Named, On("plot") => PlotInv, [PagesNext]_<<page, pageVars>>, On("plot")' PROVE PlotInv'
  <2>1. On("plot") /\ PlotInv
    BY <1>2, StaysOpen DEF On
  <2>2. PlotNext \/ UNCHANGED page
    BY <1>2, <2>1, StepsAs
  <2>3. CASE UNCHANGED page
    BY <2>1, <2>3 DEF PlotInv, PlotTyped, PlotCounted, MatchKnown, Script, Names, GoalsIn, Goals, GoalIds
  <2> QED
    BY <1>2, <2>1, <2>2, <2>3, PlotStep
<1> QED
  BY <1>1, <1>2, PageTurns

LEMMA DemoAlone ==
  /\ PagesInit => Named /\ (On("demo") => DemoInv)
  /\ Named /\ (On("demo") => DemoInv) /\ [PagesNext]_<<page, pageVars>> => (Named /\ (On("demo") => DemoInv))'
<1>1. PagesInit => Named /\ (On("demo") => DemoInv)
  BY PagesNamed, OpensAs, DemoInitInv
<1>2. ASSUME Named, On("demo") => DemoInv, [PagesNext]_<<page, pageVars>>, On("demo")' PROVE DemoInv'
  <2>1. On("demo") /\ DemoInv
    BY <1>2, StaysOpen DEF On
  <2>2. DemoNext \/ UNCHANGED page
    BY <1>2, <2>1, StepsAs
  <2>3. CASE UNCHANGED page
    BY <2>1, <2>3 DEF DemoInv, DemoTyped, Streams, GivenOK, DemoCounted, Script, DemoTeams, GoalsIn, Goals, GoalIds
  <2> QED
    BY <1>2, <2>1, <2>2, <2>3, DemoStep
<1> QED
  BY <1>1, <1>2, PageTurns

\* The accounts and the profile, as the rules of the form and the server let them be.
LEMMA SavedMeans ==
  (On("register") => RegisterInv) /\ (On("profile") => ProfileInv) => SavedAsShown
<1>1. ASSUME RegisterInv
      PROVE  /\ \A a \in page.accounts :
                  /\ a["password"] = a["confirmPassword"] /\ a["age"] # ""
                  /\ \A f \in {"firstName", "lastName", "userName", "email", "password"} : a[f] \notin {"", "bad"}
             /\ \A a, b \in page.accounts : a["email"] = b["email"] => a = b
             /\ page.gone => page.accounts # {} /\ ~page.serverError
             /\ page.loading <=> page.sent # None
  BY <1>1, NoErrors DEF RegisterInv, AccountsOK, AccountOK
<1>2. ProfileInv => (page.feedback = "success" /\ ~page.lost => \A f \in ServerFields : page.server[f] = page.card[f])
  BY DEF ProfileInv, HeldOK
<1> QED
  BY <1>1, <1>2 DEF SavedAsShown

\* A row that a view shows as read is read, deleted or was never stored at the server,
\* unless a mark-all swept it along (useNotifications.ts:182).
THEOREM ReadRowsAreRead == PagesSpec => []ReadIsRead
<1>1. Named /\ (On("notifications") => NotesInv) => ReadIsRead
  BY NotesInvMeans DEF ReadIsRead
<1> QED
  BY <1>1, NotesAlone, PTL DEF PagesSpec

\* Results, and "nothing found", are shown for the query that the page names, whichever
\* of the searches under way ends last (search/page.tsx:207).
THEOREM ResultsAreOfTheQuery == PagesSpec => []SearchShowsItsQuery
<1>1. Named /\ (On("search") => SearchInv) => SearchShowsItsQuery
  BY SearchInvMeans DEF SearchShowsItsQuery
<1> QED
  BY <1>1, SearchAlone, PTL DEF PagesSpec

\* The numbers of the live panel and its link are those of the match it shows
\* (LiveMatchPanel.tsx, with statistics pushed for another match and answers that cross).
THEOREM NumbersAreOfTheMatch == PagesSpec => []NumbersOfThisMatch
<1>1. Named /\ (On("live") => LiveInv) => NumbersOfThisMatch
  BY LiveInvMeans DEF NumbersOfThisMatch
<1> QED
  BY <1>1, LiveAlone, PTL DEF PagesSpec

\* The forms send what they show: the match that is started, the account that is made,
\* the profile that is saved (matchsimulation, register and profile pages).
THEOREM FormsSendWhatTheyShow == PagesSpec => []SentAsShown
<1>1. (On("start") => StartInv) /\ (On("register") => RegisterInv) /\ (On("profile") => ProfileInv) => SentAsShown
  BY StartInvMeans, SavedMeans DEF SentAsShown, StartsWhatWasChosen
<1> QED
  BY <1>1, StartAlone, RegisterAlone, ProfileAlone, PTL DEF PagesSpec

\* What the settings show is what localStorage gives the next visit, and so is, key by
\* key, what the shop shows, but for the keys another tab wrote after this page last
\* read or wrote them (EnhancedSettingsContext.tsx, products pages).
THEOREM StorageHasWhatIsShown == PagesSpec => []StoredAsShown
<1>1. (On("settings") => SettingsInv) /\ (On("shop") => ShopInv) => StoredAsShown
  BY ShopInvMeans DEF StoredAsShown, SettingsInv, SettingsShownAreSaved, ShopRemembers
<1> QED
  BY <1>1, SettingsAlone, ShopAlone, PTL DEF PagesSpec

\* What a list shows are the items of the last fetch that its search and choice ask for,
\* in its order, with an error only after a failed fetch or on a page that never
\* clears it; a thing is shown with all that belongs to it; and a match as the cache has
\* it, with the longer bar green exactly where more is better (the pages of the
\* catalogue, over ApiService's cache).
THEOREM CatalogueIsAsFetched == PagesSpec => []CatalogueAsFetched
<1>1. (On("list") => ListInv) /\ (On("thing") => ThingInv) => ShownIsFetched
  BY ListInvMeans, ThingInvMeans DEF ShownIsFetched
<1>2. (On("match") => MatchInv) => MatchAsCached
  BY MatchInvMeans DEF MatchAsCached
<1>3. (On("list") => ListInv) /\ (On("thing") => ThingInv) /\ (On("match") => MatchInv) => CatalogueAsFetched
  BY <1>1, <1>2 DEF CatalogueAsFetched
<1> QED
  BY <1>3, ListAlone, ThingAlone, MatchAlone, PTL DEF PagesSpec

\* The scores that the simulation and the demonstration page show count each goal of the
\* events heard once: on top of the score that the storage held when the page was
\* opened, and once the page knows the match's names from its first event; whatever
\* comes late, twice, out of order, or over a reload, for every match that the
\* engine can write. Nobody is drawn after his card, nor off the pitch; and the
\* demonstration breaks only at the recording's end (EventPlotter.tsx,
\* DemoEventPlotter.tsx, useMockEventStream.ts).
THEOREM ScoresCountGoals == PagesSpec => []ScoreOfEvents
<1>1. (On("plot") => PlotInv) => ScoreCountsGoalsOnce
  BY PlotInvMeans DEF ScoreCountsGoalsOnce
<1>2. (On("demo") => DemoInv) => DemoScoreIsOfEventsShown
  BY DemoInvMeans DEF DemoScoreIsOfEventsShown
<1>3. (On("plot") => PlotInv) /\ (On("demo") => DemoInv) => ScoreOfEvents
  BY <1>1, <1>2 DEF ScoreOfEvents
<1> QED
  BY <1>3, PlotAlone, DemoAlone, PTL DEF PagesSpec
=============================================================================
