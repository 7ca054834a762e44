--------------------------- MODULE SignalRConnections ---------------------------
(***************************************************************************)
(* SignalRService, the singleton that holds the browser's two hub           *)
(* connections, and what connects them: InstantSignalRConnector,           *)
(* EmergencySignalRFix, the notification hooks and the pages.              *)
(*                                                                         *)
(* A call of connect() is a script of steps with an await between any two. *)
(* The service keeps one reference and one flag per hub; every connection  *)
(* it ever built goes on by itself and its callbacks write that flag.      *)
(***************************************************************************)
EXTENDS Naturals, Sequences, FiniteSets, SequencesExt, TLC

CONSTANTS
  Hubs,                 \* {"match", "notify"}, or the match hub alone
  Callers,              \* those that call the service from outside the page
  MaxVisits,            \* bound on the visits of the simulation page
  Matches,
  MaxReconnectAttempts, \* maxReconnectAttempts (5)
  MaxTries,             \* maxAttempts of InstantSignalRConnector (10)
  MaxConns,             \* bound on the connections ever built
  MaxSigns,             \* bound on how often the session begins and ends
  MaxLosses             \* bound on the connections the network drops

Null == 0

\* The call of a visit of the page.
Page(v) == ToString(v)
PageCallers == 1 .. MaxVisits

ASSUME ConnectionsAssumption ==
  /\ {"match"} \subseteq Hubs /\ Hubs \subseteq {"match", "notify"}
  /\ Callers \cap (Hubs \cup {"logout"}) = {}
  /\ {Page(v) : v \in PageCallers} \cap (Callers \cup Hubs \cup {"logout"}) = {}
  /\ \A v, w \in PageCallers : Page(v) = Page(w) => v = w
  /\ {MaxVisits, MaxReconnectAttempts, MaxTries, MaxConns, MaxSigns, MaxLosses} \subseteq Nat

VARIABLES
  conns,     \* every HubConnection ever built, in order
  current,   \* matchSimulationConnection, notificationConnection
  flag,      \* isMatchSimulationConnected, isNotificationConnected
  attempts,  \* reconnectAttempts
  timers,    \* reconnection timeouts pending, per hub
  globalOn,  \* globalMatchEventHandler # null
  pageOn,    \* pageSpecificMatchEventHandler: a visit, or Null
  calls,     \* the calls of the service in flight
  losses,    \* what the network did so far
  session,   \* who is signed in: [user |-> "in", "out" or "lapsed", changes |-> so far]
  orphans    \* history: connections that were open when the service lost hold of them

connVars == <<session, conns, current, flag, attempts, timers, globalOn, pageOn, calls, losses, orphans>>

Slots == Callers \cup {Page(v) : v \in PageCallers} \cup Hubs \cup {"logout"}
Idle == [todo |-> <<>>, at |-> "idle", conn |-> Null, stops |-> {}, got |-> {}, tries |-> 0]
Connect == IF "notify" \in Hubs THEN <<"match", "notify">> ELSE <<"match">>
Call(todo, tries) == [Idle EXCEPT !.todo = todo, !.at = "enter", !.tries = tries]

\* authService.isAuthenticated(), with a token to hand out. A session ends by a
\* logout, which tells its listeners, or lapses: the token expires, or clearTokens
\* after a refused refresh, and nobody is told.
auth == session.user = "in"
\* A lapse and the logout that follows it count as one, and so does a session that
\* the browser had when the service was loaded.
Turns(user) ==
  LET cost == IF session.user = "lapsed" /\ user = "out" THEN 0 ELSE 1 IN
    /\ session.changes + cost <= MaxSigns
    /\ session' = [user |-> user, changes |-> session.changes + cost]

Conn(h) == [hub |-> h, st |-> "starting", global |-> h = "match", pages |-> {},
            groups |-> {}, started |-> FALSE]
Open(c) == conns[c].st # "closed"
\* The connection k, closed: it is in no group and has no onclose to call any more.
Closed(k) == [k EXCEPT !.st = "closed", !.groups = {}, !.started = FALSE]

ConnInit ==
  /\ conns = <<>>
  /\ current = [h \in Hubs |-> Null] /\ flag = [h \in Hubs |-> FALSE]
  /\ attempts = 0 /\ timers = [h \in Hubs |-> 0]
  /\ globalOn = FALSE /\ pageOn = Null
  /\ calls = [i \in Slots |-> Idle]
  /\ losses = 0 /\ orphans = {}
  /\ session \in {[user |-> "in", changes |-> 1], [user |-> "out", changes |-> 0]}

\* isMatchSimulationActive, isNotificationActive, isGloballyConnected.
Active(h) == flag[h] /\ current[h] # Null /\ conns[current[h]].st = "connected"
IsGloballyConnected == \A h \in Hubs : Active(h)

\* The call goes on after its step, with the hubs it got; at the end a timeout or
\* the logout forgets it, and any other caller decides what to do.
After(i, got) ==
  IF Len(calls[i].todo) > 1
  THEN [calls[i] EXCEPT !.todo = Tail(@), !.conn = Null, !.at = "enter", !.got = got]
  ELSE IF i \in Hubs \cup {"logout"} THEN Idle
  ELSE [Idle EXCEPT !.at = "decide", !.got = got, !.tries = calls[i].tries]
Then(i) == After(i, calls[i].got)
Got(i, h) == After(i, calls[i].got \cup {h})
\* connect() clears the attempts when it got a hub.
Cleared(i) == attempts' = IF calls[i].got = {} THEN attempts ELSE 0
Head1(i, step, at) == calls[i].at = at /\ calls[i].todo # <<>> /\ Head(calls[i].todo) = step

\* ensureGlobalMatchEventHandler, on the connections cs.
EnsureGlobal(cs) ==
  IF current["match"] # Null /\ globalOn THEN [cs EXCEPT ![current["match"]].global = TRUE] ELSE cs

-----------------------------------------------------------------------------
\* connectMatchSimulation and connectNotifications.

\* The guard: a hub that is connected answers at once; otherwise the call
\* waits for a token, and the guard is not read again.
ConnectEnter(i, h) ==
  /\ Head1(i, h, "enter")
  /\ calls' = [calls EXCEPT ![i] =
                 IF current[h] # Null /\ flag[h] THEN Got(i, h) ELSE [@ EXCEPT !.at = "token"]]
  /\ UNCHANGED <<session, conns, current, flag, attempts, timers, globalOn, pageOn, losses, orphans>>

\* getAuthToken answers null: there is no token, or it has expired or its
\* refresh is refused, and the tokens are cleared.
NoToken(i, h) ==
  /\ Head1(i, h, "token")
  /\ IF auth THEN Turns("lapsed") ELSE UNCHANGED session
  /\ calls' = [calls EXCEPT ![i] = Then(i)]
  /\ UNCHANGED <<conns, current, flag, attempts, timers, globalOn, pageOn, losses, orphans>>

\* A new HubConnection takes the place of the current one, whatever that one
\* is doing; for the match hub with a new globalMatchEventHandler on it.
Build(i, h) ==
  /\ Head1(i, h, "token") /\ auth
  /\ Len(conns) < MaxConns
  /\ conns' = Append(conns, Conn(h))
  /\ current' = [current EXCEPT ![h] = Len(conns')]
  /\ globalOn' = (globalOn \/ h = "match")
  /\ calls' = [calls EXCEPT ![i] = [@ EXCEPT !.at = "start", !.conn = Len(conns')]]
  /\ orphans' = IF current[h] # Null /\ Open(current[h]) THEN orphans \cup {current[h]} ELSE orphans
  /\ UNCHANGED <<session, flag, attempts, timers, pageOn, losses>>

\* start() resolves: the flag is raised, and the global handler is put on the
\* connection the service holds now, which need not be this one.
Started(i, h) ==
  /\ Head1(i, h, "start")
  /\ LET c == calls[i].conn
         up == [conns EXCEPT ![c] = [@ EXCEPT !.st = "connected", !.started = TRUE]] IN
       /\ conns[c].st = "starting"
       /\ conns' = IF h = "match" THEN EnsureGlobal(up) ELSE up
  /\ flag' = [flag EXCEPT ![h] = TRUE]
  /\ calls' = [calls EXCEPT ![i] = Got(i, h)]
  /\ UNCHANGED <<session, current, attempts, timers, globalOn, pageOn, losses, orphans>>

\* start() rejects because of the network; Stopped has the other reason.
StartFailed(i, h) ==
  /\ Head1(i, h, "start")
  /\ LET c == calls[i].conn IN
       /\ conns[c].st = "starting" /\ losses < MaxLosses /\ losses' = losses + 1
       /\ conns' = [conns EXCEPT ![c] = Closed(@)]
  /\ flag' = [flag EXCEPT ![h] = FALSE]
  /\ calls' = [calls EXCEPT ![i] = Then(i)]
  /\ UNCHANGED <<session, current, attempts, timers, globalOn, pageOn, orphans>>

-----------------------------------------------------------------------------
\* disconnect: both hubs are stopped side by side; the call then goes on with `then',
\* once.

\* Wrong: a connection that is still starting is not stopped.
StopBothStarted(i, then) ==
  /\ LET held == {c \in {current[h] : h \in Hubs} \ {Null} : conns[c].st # "starting"} IN
       /\ conns' = [c \in DOMAIN conns |->
                      IF c \in held /\ Open(c) THEN [conns[c] EXCEPT !.st = "stopping"] ELSE conns[c]]
       /\ calls' = [calls EXCEPT ![i] = [Call(<<"stop">> \o then, MaxTries) EXCEPT
                      !.at = "stopping", !.stops = @ \cup {c \in held : Open(c)} \cup calls[i].stops]]
  /\ attempts' = 0
  /\ UNCHANGED <<current, flag, timers, globalOn, pageOn, losses, orphans>>

StopBoth(i, then) ==
  /\ LET held == {current[h] : h \in Hubs} \ {Null}
         dead == {h \in Hubs : current[h] # Null /\ ~Open(current[h])} IN
       /\ conns' = [c \in DOMAIN conns |->
                      IF c \in held /\ Open(c) THEN [conns[c] EXCEPT !.st = "stopping"] ELSE conns[c]]
       /\ current' = [h \in Hubs |-> IF h \in dead THEN Null ELSE current[h]]
       /\ flag' = [h \in Hubs |-> flag[h] /\ h \notin dead]
       /\ calls' = [calls EXCEPT ![i] = [Call(<<"stop">> \o then, MaxTries) EXCEPT
                      !.at = "stopping", !.stops = @ \cup {c \in held : Open(c)} \cup calls[i].stops]]
  /\ attempts' = 0
  /\ UNCHANGED <<timers, globalOn, pageOn, losses, orphans>>

\* onclose of a started connection: a timeout to connect again, unless the user
\* is signed out, the server said so, or the attempts are used up.
OnClose(c, refused) ==
  timers' = IF conns[c].started /\ ~refused /\ auth /\ attempts < MaxReconnectAttempts
            THEN [timers EXCEPT ![conns[c].hub] = @ + 1] ELSE timers

\* The invocations under way on c, and its start, are rejected.
Dropped(c) ==
  [i \in Slots |->
     IF calls[i].conn # c THEN calls[i]
     ELSE IF calls[i].at = "invoked"
     THEN [Idle EXCEPT !.at = "decide", !.tries = calls[i].tries]
     ELSE Then(i)]

\* stop() is done; whoever waited for it drops the reference of the hub.
Stopped(c) ==
  /\ conns[c].st = "stopping"
  /\ conns' = [conns EXCEPT ![c] = Closed(@)]
  /\ LET h == conns[c].hub
         waited == \E i \in Slots : c \in calls[i].stops
         d == Dropped(c) IN
       /\ flag' = IF waited \/ conns[c].started THEN [flag EXCEPT ![h] = FALSE] ELSE flag
       /\ current' = IF waited THEN [current EXCEPT ![h] = Null] ELSE current
       /\ orphans' = IF waited /\ current[h] \notin {c, Null} /\ Open(current[h])
                     THEN orphans \cup {current[h]} ELSE orphans
       /\ calls' = [i \in Slots |-> [d[i] EXCEPT !.stops = @ \ {c}]]
  /\ OnClose(c, FALSE)
  /\ UNCHANGED <<session, attempts, globalOn, pageOn, losses>>

Disconnected(i) ==
  /\ calls[i].at = "stopping" /\ calls[i].stops = {}
  /\ calls' = [calls EXCEPT ![i] = Then(i)]
  /\ UNCHANGED <<session, conns, current, flag, attempts, timers, globalOn, pageOn, losses, orphans>>

-----------------------------------------------------------------------------
\* What a connection does by itself.

\* Wrong: without onreconnecting.
LostUnnoticed(c) ==
  /\ conns[c].st = "connected"
  /\ losses < MaxLosses /\ losses' = losses + 1
  /\ conns' = [conns EXCEPT ![c] = [@ EXCEPT !.st = "reconnecting", !.groups = {}]]
  /\ calls' = Dropped(c)
  /\ UNCHANGED <<session, flag, current, attempts, timers, globalOn, pageOn, orphans>>

\* The network drops c: onreconnecting.
Lost(c) ==
  /\ conns[c].st = "connected"
  /\ losses < MaxLosses /\ losses' = losses + 1
  /\ conns' = [conns EXCEPT ![c] = [@ EXCEPT !.st = "reconnecting", !.groups = {}]]
  /\ flag' = [flag EXCEPT ![conns[c].hub] = FALSE]
  /\ calls' = Dropped(c)
  /\ UNCHANGED <<session, current, attempts, timers, globalOn, pageOn, orphans>>

\* A retry of withAutomaticReconnect has its token and is under way.
Retrying(c) ==
  /\ conns[c].st = "reconnecting" /\ auth
  /\ conns' = [conns EXCEPT ![c].st = "resuming"]
  /\ UNCHANGED <<session, current, flag, attempts, timers, globalOn, pageOn, calls, losses, orphans>>

\* onreconnected: the server knows c under a new id, in no group; the handlers
\* stay. A user who signed out meanwhile has the current connection stopped.
Reconnected(c) ==
  /\ conns[c].st = "resuming"
  /\ auth
  /\ flag' = [flag EXCEPT ![conns[c].hub] = TRUE]
  /\ attempts' = 0
  /\ conns' = IF conns[c].hub = "match" THEN EnsureGlobal([conns EXCEPT ![c].st = "connected"])
              ELSE [conns EXCEPT ![c].st = "connected"]
  /\ UNCHANGED <<session, current, timers, globalOn, pageOn, calls, losses, orphans>>

ReconnectedSignedOut(c) ==
  /\ conns[c].st = "resuming" /\ ~auth
  /\ LET h == conns[c].hub
         up == [conns EXCEPT ![c].st = "connected"]
         k == current[h] IN
       /\ attempts' = 0
       /\ IF k # Null /\ up[k].st # "closed"
          THEN /\ conns' = [up EXCEPT ![k].st = "stopping"]
               /\ calls' = [calls EXCEPT !["logout"] = [Call(<<"stop">>, MaxTries) EXCEPT
                               !.at = "stopping", !.stops = @ \cup {k} \cup calls["logout"].stops]]
               /\ flag' = [flag EXCEPT ![h] = TRUE] /\ UNCHANGED current
          ELSE /\ conns' = up /\ UNCHANGED calls
               /\ flag' = [flag EXCEPT ![h] = k = Null]
               /\ current' = [current EXCEPT ![h] = Null]
  /\ UNCHANGED <<session, timers, globalOn, pageOn, losses, orphans>>

\* The retries end, by their number or by an answer of 401: onclose.
GaveUp(c) ==
  /\ conns[c].st \in {"reconnecting", "resuming"}
  /\ conns' = [conns EXCEPT ![c] = Closed(@)]
  /\ flag' = [flag EXCEPT ![conns[c].hub] = FALSE]
  /\ \E refused \in BOOLEAN : OnClose(c, refused)
  /\ UNCHANGED <<session, current, attempts, globalOn, pageOn, calls, losses, orphans>>

\* attemptMatchSimulationReconnection, attemptNotificationReconnection.
TimerFires(h) ==
  /\ timers[h] > 0 /\ calls[h] = Idle
  /\ timers' = [timers EXCEPT ![h] = @ - 1]
  /\ IF attempts < MaxReconnectAttempts /\ auth
     THEN attempts' = attempts + 1 /\ calls' = [calls EXCEPT ![h] = Call(<<h>>, 0)]
     ELSE UNCHANGED <<attempts, calls>>
  /\ UNCHANGED <<session, conns, current, flag, globalOn, pageOn, losses, orphans>>

-----------------------------------------------------------------------------
\* Who calls.

Begin(i, todo, tries) ==
  /\ calls' = [calls EXCEPT ![i] = Call(todo, tries)]
  /\ Cleared(i)
  /\ UNCHANGED <<session, conns, current, flag, timers, globalOn, pageOn, losses, orphans>>

\* connectInstantly, when the app loads and then every half second that finds
\* the hubs not connected, beside the calls under way.
ConnectInstantly(i) ==
  /\ i \in Callers /\ calls[i] = Idle
  /\ auth /\ ~IsGloballyConnected
  /\ Begin(i, Connect, 1)

\* It tries again after 100 ms, up to MaxTries times.
InstantAgain(i) ==
  /\ i \in Callers /\ calls[i].at = "decide" /\ calls[i].got # Hubs
  /\ calls[i].tries < MaxTries
  /\ Begin(i, Connect, calls[i].tries + 1)

\* EmergencySignalRFix, and reset of a hook: disconnect, then connect.
EmergencyConnect(i) ==
  /\ i \in Callers /\ calls[i] = Idle
  /\ ~IsGloballyConnected
  /\ StopBoth(i, Connect)
  /\ UNCHANGED session

\* ensureConnection of useSignalRNotifications: one try.
EnsureConnection(i) ==
  /\ i \in Callers /\ calls[i] = Idle /\ auth /\ ~IsGloballyConnected
  /\ Begin(i, Connect, MaxTries)

\* What a caller does with the answer: the global handler once more.
CallerDone(i) ==
  /\ i \in Callers /\ calls[i].at = "decide"
  /\ calls[i].got = Hubs \/ calls[i].tries = MaxTries
  /\ conns' = IF calls[i].got = Hubs THEN EnsureGlobal(conns) ELSE conns
  /\ calls' = [calls EXCEPT ![i] = Idle]
  /\ Cleared(i)
  /\ UNCHANGED <<session, current, flag, timers, globalOn, pageOn, losses, orphans>>

\* notifyLogout calls disconnectDueToAuth: the attempts are set to their maximum
\* against reconnection, and disconnect sets them back to zero.
SignOut ==
  /\ session.user # "out" /\ Turns("out")
  /\ StopBoth("logout", <<>>)

\* The token expires, or clearTokens anywhere in the frontend: the listeners of
\* the logout are not called.
Lapse ==
  /\ auth /\ Turns("lapsed")
  /\ UNCHANGED <<conns, current, flag, attempts, timers, globalOn, pageOn, calls, losses, orphans>>

\* A login, or a refresh whose answer comes after the session ended and is stored.
SignIn ==
  /\ ~auth /\ Turns("in")
  /\ UNCHANGED <<conns, current, flag, attempts, timers, globalOn, pageOn, calls, losses, orphans>>

-----------------------------------------------------------------------------
ConnNext ==
  \/ \E i \in Slots, h \in Hubs :
       ConnectEnter(i, h) \/ NoToken(i, h) \/ Build(i, h) \/ Started(i, h) \/ StartFailed(i, h)
  \/ \E i \in Slots : Disconnected(i)
  \/ \E c \in DOMAIN conns :
       Stopped(c) \/ Lost(c) \/ Retrying(c) \/ Reconnected(c) \/ ReconnectedSignedOut(c) \/ GaveUp(c)
  \/ \E h \in Hubs : TimerFires(h)
  \/ \E i \in Callers :
       ConnectInstantly(i) \/ InstantAgain(i) \/ EmergencyConnect(i) \/ EnsureConnection(i) \/ CallerDone(i)
  \/ SignOut \/ Lapse \/ SignIn

ConnSpec == ConnInit /\ [][ConnNext]_connVars

Quiet == \A i \in Slots : calls[i].at \in {"idle", "decide"}

\* The only connections that outlive a logout are those the service had already
\* lost hold of: replaced while open, or let go by a stop of another one; also
\* when the session had lapsed before, which by itself stops no hub. It is about
\* the logout listener (SignalRService.ts:143), the awaits of connect and
\* disconnect, and the reconnections the library starts by itself.
SignedOutIsQuiet ==
  (session.user = "out" /\ Quiet) => \A c \in DOMAIN conns : Open(c) => c \in orphans

\* As long as the service has lost hold of no connection of a hub, the hub's
\* flag and its connection say the same: what the pages ask before they skip
\* connecting, or leave a group, is true (isGloballyConnected, leaveSimulation).
FlagHonest ==
  \A h \in Hubs : (\A c \in orphans : conns[c].hub # h) =>
    /\ flag[h] => current[h] # Null /\ conns[current[h]].st \in {"connected", "stopping"}
    /\ current[h] # Null /\ conns[current[h]].st = "connected" => flag[h]
=============================================================================
