----------------------------- MODULE DemoSimulation -----------------------------
(***************************************************************************)
(* The demo (app/demo-simulation): a recorded match is streamed, one event  *)
(* a second from the moment the page is opened (useMockEventStream), and    *)
(* drawn by DemoEventPlotter while the demo is started and not paused.      *)
(* DemoEventPlotter has its own copy of what EventPlotter draws, and keeps  *)
(* the score without the storage. The recording stands in for Scripts[1].   *)
(***************************************************************************)
EXTENDS EventPlotting

\* DEMO_MATCH_DATA: the two teams of the recording.
DemoTeams == <<Scripts[1][1].home, Scripts[1][1].away>>
DemoMounted ==
  [match |-> 1, index |-> 0, streamed |-> <<>>, started |-> FALSE, paused |-> FALSE,
   heard |-> <<>>, home |-> 0, away |-> 0, processed |-> {}, names |-> DemoTeams, broken |-> FALSE]
DemoInit == page = DemoMounted ++ [name |-> "demo", clicks |-> 0]

-----------------------------------------------------------------------------
\* The plotter is given these events: no events reset the score; others add the
\* goals that were not counted yet.

\* Wrong: the goals are counted anew at each pass.
AllGoals(events) == {i \in ToSet(events) : Script[i].kind = "shot" /\ Script[i].outcome = "Goal"}
\* The goals whose goalId was not met yet.
NewGoals(events) ==
  {i \in ToSet(events) :
     /\ Script[i].kind = "shot" /\ Script[i].outcome = "Goal"
     /\ <<Script[i].team, Script[i].time>> \notin page.processed}
DemoScore(events) ==
  LET new == NewGoals(events) IN
    IF events = <<>> THEN [home |-> 0, away |-> 0, processed |-> {}]
    ELSE [home |-> page.home + Cardinality({i \in new : Script[i].team = DemoTeams[1]}),
          away |-> page.away + Cardinality({i \in new : Script[i].team = DemoTeams[2]}),
          processed |-> page.processed \cup {<<Script[i].team, Script[i].time>> : i \in new}]
\* An entry past the recording's end is undefined: the plotter throws on it, and
\* nothing catches it.
Given(events) ==
  IF \A k \in DOMAIN events : events[k] \in DOMAIN Script THEN [heard |-> events] ++ DemoScore(events)
  ELSE [broken |-> TRUE]

\* The effect on the stream, the start and the pause.
Follows(streamed, started, paused) == IF started /\ ~paused THEN Given(streamed) ELSE <<>>

\* The interval of the stream. The updater reads `index` when it is run: at once, or
\* when the page is rendered, after index++; so that an event may be passed over, or come
\* twice when the next is read at once.
StreamTick ==
  /\ page.index < Len(Script) /\ ~page.broken
  /\ \E late \in {0, 1} :
       LET streamed == Append(page.streamed, page.index + 1 + late) IN
         Change([index |-> page.index + 1, streamed |-> streamed]
                ++ Follows(streamed, page.started, page.paused))

-----------------------------------------------------------------------------
\* The controls: "start" until it is started, then "pause" or "resume", and "reset".
Controls ==
  CASE page.broken -> {}
    [] ~page.broken /\ ~page.started -> {"start"}
    [] OTHER -> {"pause", "reset"}
\* What was streamed before the start is shown with it.
StartDemo ==
  "start" \in Controls /\ Click([started |-> TRUE, paused |-> FALSE] ++ Follows(page.streamed, TRUE, FALSE))
PauseDemo ==
  "pause" \in Controls /\ Click([paused |-> ~page.paused] ++ Follows(page.streamed, TRUE, ~page.paused))
\* resetDemo loads the page again.
ResetDemo == "reset" \in Controls /\ Click(DemoMounted)

-----------------------------------------------------------------------------
\* What the plotter shows.

\* The same cards, event types, and last events as EventPlotter.
DemoPitch == OnPitch
DemoDrawn(e) == Drawn(e)
\* The time of the last event given; the page's own timer shows for an event without one,
\* which the recording does not have.
DemoTime == IF page.heard = <<>> THEN 0 ELSE Script[Last(page.heard)].time
\* ScoreboardDisplay
Scoreboard == [teams |-> DemoTeams, score |-> <<page.home, page.away>>, time |-> DemoTime]

DemoNext == On("demo") /\ (StreamTick \/ StartDemo \/ PauseDemo \/ ResetDemo)

-----------------------------------------------------------------------------
\* The stream runs on while the demo waits or is paused, events are passed over or
\* come twice, all that was missed comes at once: the scoreboard still has each goal
\* among the events given exactly once; the events are in the order of the recording,
\* whose times go back at half-time, and all that were streamed unless the demo is
\* paused; a player sent off is not drawn again; and the demo breaks only at the end of
\* the recording, by the entry past it (useMockEventStream.ts:14).
DemoScoreIsOfEventsShown ==
  On("demo") =>
    /\ \A t \in {1, 2} : Scoreboard.score[t] = Cardinality(Goals(DemoTeams[t]) \cap ToSet(page.heard))
    /\ \A k \in DOMAIN page.heard : \A j \in 1 .. (k - 1) : page.heard[j] <= page.heard[k]
    /\ IsPrefix(page.heard, page.streamed)
    /\ page.started /\ ~page.paused /\ ~page.broken => page.heard = page.streamed
    /\ \A k \in DemoPitch : \A j \in 1 .. (k - 1) :
         LET e == Script[page.heard[k]]  d == Script[page.heard[j]] IN
           /\ e.player # None => ~(Dismisses(d) /\ d.player = e.player)
           /\ \A m \in DemoDrawn(e).markers : m.colour \in {"blue", "white", "yellow"}
    /\ page.broken => page.index = Len(Script)
=============================================================================
