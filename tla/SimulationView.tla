----------------------------- MODULE SimulationView -----------------------------
(***************************************************************************)
(* The simulation page on top of SignalRConnections: the hook               *)
(* useSignalREventStream, which hears of events over SignalR and over the   *)
(* SSE stream of MatchStreamService, the page that locks the browser's      *)
(* navigation until the match starts, and what they keep in localStorage.   *)
(***************************************************************************)
EXTENDS SignalRConnections

CONSTANTS
  MaxRetries,   \* maxRetries of the hook (5)
  KeptStates,   \* match_started_ entries that cleanupOldMatchStates keeps (5)
  Visits,       \* bound: for which matches each visit of the page may be
  MaxEvents     \* bound on the events of a match; event 1 is match_start

ASSUME ViewAssumption ==
  /\ Matches \subseteq Nat \ {0}
  /\ {MaxRetries, KeptStates, MaxEvents} \subseteq Nat
  /\ Visits \in [PageCallers -> SUBSET Matches]

VARIABLES
  visited,     \* the matches of the page's visits so far; the last is the current one
  open,        \* the page is mounted
  events,      \* streamedEvents: <<match, event_index>>, in order of arrival
  unlocked,    \* matchStarted
  startedKeys, \* the matches whose match_started_ entry is stored
  storedId,    \* matchId in localStorage, Null if none
  sse,         \* the visit whose EventSource is open, or Null
  late         \* history: visits that joined or subscribed after they were left

viewVars == <<visited, open, events, unlocked, startedKeys, storedId, sse, late>>
pageVars == <<connVars, viewVars>>

ViewInit ==
  /\ visited = <<>> /\ open = FALSE /\ events = <<>>
  /\ unlocked = FALSE /\ startedKeys = {}
  /\ storedId = Null
  /\ sse = Null /\ late = {}

Here(v) == open /\ v = Len(visited)

\* cleanupOldMatchStates: the highest match ids stay.
Kept(keys) == {k \in keys : Cardinality({l \in keys : l > k}) < KeptStates}

\* ensurePageConnection: connect unless both hubs are.
PageConnect(tries) ==
  IF IsGloballyConnected THEN [Idle EXCEPT !.at = "decide", !.got = Hubs, !.tries = tries]
  ELSE Call(Connect, tries)

-----------------------------------------------------------------------------
\* The page is opened for the match m that localStorage names, whatever its
\* address says: matchsimulation stored it when the simulation was started.
Visit ==
  /\ ~open /\ Len(visited) < MaxVisits
  /\ \E m \in Visits[Len(visited) + 1] :
       /\ storedId' = m
       /\ visited' = Append(visited, m)
       /\ unlocked' = (m \in startedKeys)
  /\ open' = TRUE /\ events' = <<>>
  /\ startedKeys' = Kept(startedKeys)
  /\ sse' = IF auth THEN Len(visited') ELSE Null
  /\ calls' = [calls EXCEPT ![Page(Len(visited'))] = PageConnect(1)]
  /\ UNCHANGED late
  /\ UNCHANGED <<session, conns, current, flag, attempts, timers, globalOn, pageOn, losses, orphans>>

\* The hook has both hubs: joinSimulation, which connects once more if the flag
\* was lowered meanwhile.
Joins(v) ==
  /\ v \in PageCallers /\ calls[Page(v)].at = "decide" /\ calls[Page(v)].got = Hubs
  /\ calls' = [calls EXCEPT ![Page(v)] =
                 IF flag["match"] /\ current["match"] # Null
                 THEN [Call(<<"join">>, @.tries) EXCEPT !.got = {"match"}]
                 ELSE Call(<<"match", "join">>, @.tries)]
  /\ Cleared(Page(v))
  /\ UNCHANGED <<session, conns, current, flag, timers, globalOn, pageOn, losses, orphans>>
  /\ UNCHANGED viewVars

\* JoinMatchGroup on the connection held now.
Invoke(v) ==
  /\ v \in PageCallers /\ Head1(Page(v), "join", "enter")
  /\ LET c == current["match"] IN
       IF "match" \in calls[Page(v)].got /\ c # Null /\ conns[c].st = "connected"
       THEN /\ conns' = [conns EXCEPT ![c].groups = @ \cup {visited[v]}]
            /\ calls' = [calls EXCEPT ![Page(v)] = [@ EXCEPT !.at = "invoked", !.conn = c]]
            /\ late' = IF Here(v) THEN late ELSE late \cup {v}
       ELSE /\ calls' = [calls EXCEPT ![Page(v)] = [Idle EXCEPT !.at = "decide", !.tries = calls[Page(v)].tries]]
            /\ UNCHANGED <<conns, late>>
  /\ UNCHANGED <<session, current, flag, attempts, timers, globalOn, pageOn, losses, orphans>>
  /\ UNCHANGED <<visited, open, events, unlocked, startedKeys, storedId, sse>>

\* The join is answered: onMatchEvent, which replaces the page's handler on the
\* connection held now; the hook does not ask whether its page is still there.
Subscribed(v) ==
  /\ v \in PageCallers /\ calls[Page(v)].at = "invoked"
  /\ LET c == current["match"] IN
       IF c = Null THEN UNCHANGED <<conns, pageOn>>
       ELSE /\ conns' = [conns EXCEPT ![c].pages = (@ \ {pageOn}) \cup {v}]
            /\ pageOn' = v
  /\ calls' = [calls EXCEPT ![Page(v)] = Idle]
  /\ late' = IF Here(v) THEN late ELSE late \cup {v}
  /\ UNCHANGED <<session, current, flag, attempts, timers, globalOn, losses, orphans>>
  /\ UNCHANGED <<visited, open, events, unlocked, startedKeys, storedId, sse>>

\* A failure: again after a timeout that leaving the page does not cancel, or
\* the end of the attempts.
JoinAgain(v) ==
  /\ v \in PageCallers /\ calls[Page(v)].at = "decide" /\ calls[Page(v)].got # Hubs
  /\ calls' = [calls EXCEPT ![Page(v)] = IF @.tries < MaxRetries THEN PageConnect(@.tries + 1) ELSE Idle]
  /\ Cleared(Page(v))
  /\ UNCHANGED <<session, conns, current, flag, timers, globalOn, pageOn, losses, orphans>>
  /\ UNCHANGED viewVars

\* Wrong: the group is not left.
LeftNothing(cs, m) == cs
\* leaveSimulation, if the flag says the hub is connected.
Left(cs, m) ==
  LET c == current["match"] IN
    IF flag["match"] /\ c # Null /\ cs[c].st = "connected"
    THEN [cs EXCEPT ![c].groups = @ \ {m}] ELSE cs
\* removeAllListeners: the page's handler and the global one with it.
Unheard(cs) ==
  LET c == current["match"] IN
    IF c = Null THEN cs ELSE [cs EXCEPT ![c] = [@ EXCEPT !.pages = cs[c].pages \ {pageOn}, !.global = FALSE]]

\* The cleanup of the hook's effect.
Leave ==
  /\ open /\ open' = FALSE
  /\ sse' = Null
  /\ conns' = Unheard(Left(conns, visited[Len(visited)]))
  /\ IF current["match"] = Null THEN UNCHANGED <<pageOn, globalOn>>
     ELSE pageOn' = Null /\ globalOn' = FALSE
  /\ UNCHANGED <<session, current, flag, attempts, timers, calls, losses, orphans>>
  /\ UNCHANGED <<visited, events, unlocked, startedKeys, storedId, late>>

-----------------------------------------------------------------------------
\* Events.

Known(i) == \E k \in DOMAIN events : events[k][2] = i

\* processIncomingEvent of the visits vs, and the page's effect on its events: a
\* match_start unlocks the page and is remembered for the page's match.
Received(vs, m, i) ==
  /\ IF (\E v \in vs : Here(v)) /\ ~Known(i)
     THEN /\ events' = Append(events, <<m, i>>)
          /\ unlocked' = (unlocked \/ i = 1)
          /\ startedKeys' = IF i = 1 /\ ~unlocked THEN startedKeys \cup {visited[Len(visited)]}
                            ELSE startedKeys
     ELSE UNCHANGED <<events, unlocked, startedKeys>>
  /\ UNCHANGED <<visited, open, sse, late>>
  /\ UNCHANGED connVars

\* The server sends an event to a group, possibly more than once; the global
\* handler stores the match, its names and its score when it starts.
HearSignalR(c, m, i) ==
  /\ conns[c].st = "connected" /\ m \in conns[c].groups /\ i \in 1 .. MaxEvents
  /\ storedId' = IF conns[c].global /\ i = 1 THEN m ELSE storedId
  /\ Received(conns[c].pages, m, i)

\* ... and over the event source, which the browser opens again when it breaks.
HearSse(i) ==
  /\ sse # Null /\ i \in 1 .. MaxEvents
  /\ UNCHANGED storedId
  /\ Received({sse}, visited[sse], i)

-----------------------------------------------------------------------------
PageInit == ConnInit /\ ViewInit

PageNext ==
  \/ ConnNext /\ UNCHANGED viewVars
  \/ Visit \/ Leave
  \/ \E v \in PageCallers : Joins(v) \/ Invoke(v) \/ Subscribed(v) \/ JoinAgain(v)
  \/ \E c \in DOMAIN conns, m \in Matches, i \in 1 .. MaxEvents : HearSignalR(c, m, i)
  \/ \E i \in 1 .. MaxEvents : HearSse(i)

-----------------------------------------------------------------------------
\* Two channels, two hubs and any number of connections and redeliveries show the
\* page each event index once, and, unless a join outlived its page or the
\* service lost hold of a connection, only events of the page's own match, which
\* stays the one that localStorage names (useSignalREventStream.ts:60 compares
\* the event_index alone, and nothing there asks whose event it is).
EventsOfThisMatch ==
  /\ \A k, l \in DOMAIN events : k # l => events[k][2] # events[l][2]
  /\ (open /\ late = {} /\ orphans = {}) =>
       /\ \A k \in DOMAIN events : events[k][1] = visited[Len(visited)]
       /\ storedId = visited[Len(visited)]
=============================================================================
