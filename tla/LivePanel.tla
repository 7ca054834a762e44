-------------------------------- MODULE LivePanel --------------------------------
(***************************************************************************)
(* The panel of the user's live match (LiveMatchPanel): it asks the server  *)
(* for the match every two minutes and when the mouse passes over it, hears *)
(* the match's statistics over the hub, and keeps the last ones in          *)
(* localStorage (LiveMatchStorageService).                                  *)
(***************************************************************************)
EXTENDS PageShell

CONSTANTS
  MaxLive,     \* bound on the user's live matches, one after the other
  MaxPushes    \* bound on the statistics pushed

LiveMatches == 1 .. MaxLive

\* Statistics of a match; `at` orders those of one match.
Statistics(m, at) == [match |-> m, at |-> at]
Asked(by) == [by |-> by, answer |-> None]

\* The panel is mounted with what an earlier visit stored, shown before the match
\* is known.
LiveInit ==
  \E stored \in {None, Statistics(1, 0)} :
    page = [name |-> "live", clicks |-> 0,
            live |-> 1, pushed |-> 0, cached |-> {},
            match |-> None, stats |-> stored, loading |-> TRUE, error |-> FALSE, refreshing |-> FALSE,
            connected |-> FALSE, groups |-> {}, leaving |-> {}, listener |-> None,
            stored |-> stored, old |-> FALSE, storedMatch |-> None, swapped |-> FALSE,
            asked |-> <<Asked("poll")>>]

-----------------------------------------------------------------------------
\* The server and the hub.

\* The user's match ends, another may start.
MatchChanges ==
  \E m \in LiveMatches \cup {None} :
    /\ m # page.live /\ (m # None => m > Max({0} \cup ({page.live} \ {None})))
    /\ Click([live |-> m])

\* getLiveMatchForUser answers from the server or, for thirty seconds, from the
\* cache, and turns every failure into an answer that did not succeed.
LiveHandled(k) ==
  /\ page.asked[k].answer = None
  /\ \E m \in {page.live} \cup page.cached :
       \E ok \in BOOLEAN :
         Change([asked |-> [page.asked EXCEPT ![k].answer = [ok |-> ok, match |-> IF ok THEN m ELSE None]],
                 cached |-> IF ok THEN {m} ELSE page.cached])

\* The hub is connected, or lost: its groups are gone, the panel's flag stays.
HubConnected ==
  /\ ~page.connected
  /\ Change([connected |-> TRUE, listener |-> page.match,
             groups |-> {page.match} \ {None}])
HubLost == page.groups # {} /\ Change([groups |-> {}])

\* The effects on the match's id: leave the one before, join the new one and
\* replace the listener; without a match the listener stays.
Following(m) ==
  IF m = page.match \/ ~page.connected THEN [match |-> m]
  ELSE [match |-> m, groups |-> (page.groups \ {page.match}) \cup ({m} \ {None}),
        leaving |-> page.groups \ {m},
        listener |-> IF m = None THEN page.listener ELSE m]

\* Wrong: the statistics of any match are taken.
HearsAny(m) == TRUE
\* The listener compares the match with its own.
Hears(m) == m = page.listener
\* Statistics are pushed to the match's group, shown and stored; some are under way
\* when the group is left.
StatisticsPushed(m) ==
  /\ page.pushed < MaxPushes /\ m \in page.groups \cup page.leaving
  /\ LET s == Statistics(m, page.pushed + 1) IN
       IF Hears(m)
       THEN Change([pushed |-> s.at, stats |-> s, stored |-> s, old |-> FALSE, storedMatch |-> m,
                    swapped |-> page.swapped /\ page.match # m])
       ELSE Change([pushed |-> s.at])

-----------------------------------------------------------------------------
\* localStorage.

\* Half an hour passes without statistics.
StoredAges == page.stored # None /\ ~page.old /\ Change([old |-> TRUE])
\* isStoredStatisticsValid
Valid(m) == page.stored # None /\ page.stored.match = m /\ ~page.old
\* The link to the simulation goes to the match the storage names.
SimulationUrl == IF page.storedMatch # None THEN page.storedMatch ELSE page.match

-----------------------------------------------------------------------------
\* The panel.

\* What it shows below its spinner.
Panel ==
  CASE page.loading -> "spinner"
    [] ~page.loading /\ page.error -> "error"
    [] ~page.loading /\ ~page.error /\ page.match = None -> "no match"
    [] OTHER -> "match"
\* Whose numbers it shows: those pushed, or else the match's own.
Numbers == IF page.stats # None THEN page.stats.match ELSE page.match

Poll == Click([loading |-> TRUE, error |-> FALSE, asked |-> Append(page.asked, Asked("poll"))])
HoverRefresh ==
  /\ Panel \in {"match", "no match"} /\ ~page.refreshing
  /\ Click([refreshing |-> TRUE, asked |-> Append(page.asked, Asked("hover"))])

\* A match came: the stored statistics of it are shown, any others cleared.
Loaded(m) ==
  (IF Valid(m) THEN [stats |-> page.stored] ELSE [stats |-> None, stored |-> None])
  ++ [swapped |-> FALSE, storedMatch |-> m] ++ Following(m)
\* None came, or the request failed: all is cleared.
Unloaded(ok) ==
  [stats |-> None, stored |-> None, storedMatch |-> None, swapped |-> FALSE, error |-> ~ok] ++ Following(None)

Polled(answer) ==
  [loading |-> FALSE]
  ++ IF answer.ok /\ answer.match # None THEN Loaded(answer.match) ELSE Unloaded(answer.ok)
\* The match is replaced, the statistics shown are not.
Hovered(answer) ==
  [refreshing |-> FALSE]
  ++ IF answer.ok /\ answer.match # None
     THEN [storedMatch |-> answer.match, swapped |-> page.swapped \/ answer.match # page.match] ++ Following(answer.match)
     ELSE <<>>
LiveAnswered(k) ==
  LET r == page.asked[k] IN
    /\ r.answer # None
    /\ Change([asked |-> RemoveAt(page.asked, k)]
              ++ IF r.by = "poll" THEN Polled(r.answer) ELSE Hovered(r.answer))

\* The tab is shown again: the match's group is joined again, its statistics are
\* taken from the storage if they are its own.
TabShown ==
  /\ page.match # None
  /\ Click([groups |-> IF page.connected THEN page.groups \cup {page.match} ELSE page.groups]
           ++ IF Valid(page.match) THEN [stats |-> page.stored, swapped |-> FALSE] ELSE <<>>)

LiveNext ==
  /\ On("live")
  /\ \/ MatchChanges \/ HubConnected \/ HubLost \/ StoredAges \/ Poll \/ HoverRefresh \/ TabShown
     \/ \E m \in LiveMatches : StatisticsPushed(m)
     \/ \E k \in DOMAIN page.asked : LiveHandled(k) \/ LiveAnswered(k)

-----------------------------------------------------------------------------
\* Polls, hovers, pushes and stored statistics cross while one match gives way to
\* the next: the numbers below the names of a match are that match's, unless the
\* hover put another match over them (LiveMatchPanel.tsx:148 replaces the match
\* alone), the link follows the same match, and what is shown is what is stored.
NumbersOfThisMatch ==
  On("live") =>
    /\ (Panel = "match" /\ ~page.swapped) => Numbers = page.match
    /\ Panel = "match" => SimulationUrl = page.match
    /\ page.stats # None => page.stats = page.stored
=============================================================================
