------------------------------ MODULE EventPlotting ------------------------------
(***************************************************************************)
(* The pitch of the simulation page: EventPlotter keeps the score and draws *)
(* the last events with eventPlottingHandlers; names and score are kept in  *)
(* localStorage (lib/teamStorage). Events reach it over SSE and over the    *)
(* hub, whichever is first.                                                 *)
(***************************************************************************)
EXTENDS PageShell

CONSTANTS
  Scripts,      \* bound: the matches watched one after the other, each its events
  ShownEvents   \* how many of the last events are drawn (5)

\* Events come as the engine writes them: on a pitch of 120 by 80 or nowhere, of one of
\* the two teams or of none; the name of a player says whether he keeps a goal
\* (EventPlotter.tsx:42), and whose; and a team scores once at a time. null is neither a
\* place nor a pair of names.
Pitch == (0 .. 120) \X (0 .. 80)
MatchEvents == {"match_start", "first_half_end", "second_half_start", "stoppage_time_start", "match_end"}
EventOK(e, teams) ==
  /\ e.at \in Pitch \/ e.at = None
  /\ e.to \in Pitch \/ e.to = None
  /\ e.team \in teams \/ e.kind \in MatchEvents
  /\ e.outcome = "Goal" => e.kind = "shot"
Apart(d, e) ==
  /\ d.outcome = "Goal" /\ e.outcome = "Goal" /\ d.team = e.team => d.time # e.time
  /\ d.player = e.player => d.keeper = e.keeper /\ (d.keeper => d.team = e.team)
ScriptOK(s) ==
  /\ s \in Seq(ToSet(s)) /\ s # <<>> /\ s[1].kind = "match_start" /\ s[1].home # s[1].away
  /\ \A i \in DOMAIN s : EventOK(s[i], {s[1].home, s[1].away})
  /\ \A i, j \in DOMAIN s : i # j => Apart(s[i], s[j])

ASSUME PlotAssumption ==
  /\ ShownEvents \in Nat \ {0}
  /\ Scripts \in Seq(ToSet(Scripts)) /\ Scripts # <<>> /\ \A m \in DOMAIN Scripts : ScriptOK(Scripts[m])
  /\ None \notin Pitch \cup {<<Scripts[m][1].home, Scripts[m][1].away>> : m \in DOMAIN Scripts}

Channels == {"sse", "hub"}
Script == Scripts[page.match]
Goals(team) == {i \in DOMAIN Script : Script[i].outcome = "Goal" /\ Script[i].team = team}
\* The match's own names, on its first event.
Names == <<Script[1].home, Script[1].away>>

\* getStoredScores: 0 : 0 if there is none.
StoredScore == IF page.score = None THEN <<0, 0>> ELSE page.score
\* The page is mounted: its first effects store the score that it starts from.
Mounted(m, score, names) ==
  [match |-> m, produced |-> 0, flight |-> {}, heard |-> <<>>, processed |-> {},
   home |-> score[1], away |-> score[2], base |-> score, score |-> score, names |-> names]

\* Nothing is stored yet, or the score and the names of an earlier match.
PlotInit ==
  \E old \in {[score |-> <<0, 0>>, names |-> None], [score |-> <<1, 0>>, names |-> <<"B", "A">>]} :
    page = Mounted(1, old.score, old.names) ++ [name |-> "plot", clicks |-> 0]

-----------------------------------------------------------------------------
\* What the plotter takes from the events heard so far.

Heard(i) == i \in ToSet(page.heard)
\* getTeamNameWithFallback: from the first match_start heard, the storage, or the
\* default.
TeamNames ==
  IF Heard(1) THEN Names ELSE IF page.names # None THEN page.names ELSE <<"Home Team", "Away Team">>

\* Wrong: every pass of the effect counts every goal.
CountedAgain(heard) == {i \in ToSet(heard) : Script[i].kind = "shot" /\ Script[i].outcome = "Goal"}
\* The goals among the events that the effect has not counted yet, by goalId.
Uncounted(heard) ==
  {i \in ToSet(heard) :
     Script[i].kind = "shot" /\ Script[i].outcome = "Goal"
     /\ <<Script[i].team, Script[i].time>> \notin page.processed}
\* ... for the team that has the name at the time, or for none.
ScoreWith(heard, names) ==
  LET new == Uncounted(heard)
      home == page.home + Cardinality({i \in new : Script[i].team = names[1]})
      away == page.away + Cardinality({i \in new : Script[i].team = names[2] /\ names[2] # names[1]}) IN
    [home |-> home, away |-> away,
     processed |-> page.processed \cup {<<Script[i].team, Script[i].time>> : i \in new}]
    ++ IF <<home, away>> # <<page.home, page.away>> THEN [score |-> <<home, away>>] ELSE <<>>

\* processIncomingEvent stores what match_start says, every time it comes.
Start(i) == IF i = 1 THEN [names |-> Names, score |-> <<0, 0>>] ELSE <<>>
\* Event i arrives over channel c, once over each; the list takes it once.
EventArrives(i, c) ==
  /\ <<i, c>> \in page.flight /\ \A f \in page.flight : f[2] = c => f[1] >= i
  /\ LET heard == IF Heard(i) THEN page.heard ELSE Append(page.heard, i)
         names == IF i = 1 \/ Heard(1) THEN Names ELSE TeamNames IN
       Change([flight |-> page.flight \ {<<i, c>>}, heard |-> heard]
              ++ (IF Heard(i) THEN Start(i) ELSE ScoreWith(heard, names) ++ Start(i)))

\* The match goes on; a channel that is not up misses the event.
EventProduced ==
  /\ page.produced < Len(Script)
  /\ \E on \in SUBSET Channels :
       Change([produced |-> page.produced + 1, flight |-> page.flight \cup ({page.produced + 1} \X on)])

\* The page is reloaded, or opened again for the next match: what was heard is gone.
Reload == Click(Mounted(page.match, StoredScore, page.names) ++ [produced |-> page.produced])
NextMatch == page.match < Len(Scripts) /\ Click(Mounted(page.match + 1, StoredScore, page.names))

-----------------------------------------------------------------------------
\* The events drawn.

\* getFirstGoalkeeperNames, normalizeGoalkeeperName: every keeper of a team goes by
\* the name of the first.
FirstKeeper(team) ==
  LET keepers == {k \in DOMAIN page.heard : Script[page.heard[k]].keeper /\ Script[page.heard[k]].team = team} IN
    IF keepers = {} THEN None ELSE Script[page.heard[Min(keepers)]].player
Player(e) == IF e.keeper THEN FirstKeeper(e.team) ELSE e.player

Dismisses(e) == e.kind = "foul_committed" /\ e.card \in {"Red Card", "Second Yellow"}
\* Wrong: who was sent off before plays on.
StillOnDespiteCard(k) == TRUE
\* The player of the event heard k-th has not been sent off before.
StillOn(k) ==
  LET e == Script[page.heard[k]] IN
    e.player = None \/
    \A j \in 1 .. (k - 1) :
      LET d == Script[page.heard[j]] IN ~(Dismisses(d) /\ Player(d) = Player(e))

Drawable ==
  {"match_start", "pass", "ball_receipt", "carry", "pressure", "duel", "interception", "block",
   "throw_in_pass", "foul_committed", "foul_won", "free_kick_pass", "dribble", "ball_recovery",
   "shot", "save", "corner_pass", "goal_kick_pass", "match_end", "first_half_end", "second_half_start"}
Relevant ==
  Keep([k \in DOMAIN page.heard |-> k], {k \in DOMAIN page.heard : StillOn(k) /\ Script[page.heard[k]].kind \in Drawable})
LastOf(s, n) == SubSeq(s, IF Len(s) > n THEN Len(s) - n + 1 ELSE 1, Len(s))
\* The last ones; those of the match itself only among the last three.
Visible ==
  LET last == LastOf(Relevant, ShownEvents) IN
    Keep([j \in DOMAIN last |-> j],
         {j \in DOMAIN last : Script[page.heard[last[j]]].kind \in {"match_start", "first_half_end", "match_end"}
                                => Len(last) - j <= 2})

\* getMirroredPosition, the corner for an event without a place; markers are placed
\* about the centre.
Mirrored(at, team) ==
  IF at = None THEN <<0, 0>> ELSE IF team = TeamNames[2] THEN <<120 - at[1], 80 - at[2]>> ELSE at
Placed(at, team) == LET p == Mirrored(at, team) IN <<p[1] - 60, p[2] - 40>>
Colour(team) ==
  IF team = TeamNames[1] THEN "blue" ELSE IF team = TeamNames[2] THEN "white" ELSE "gray"
Marker(e) == [at |-> Placed(e.at, e.team), colour |-> Colour(e.team)]
\* An arrow to the target, or none that moves.
Arrow(e) == IF e.to = None THEN Placed(e.at, e.team) ELSE Placed(e.to, e.team)

\* What each handler draws: markers, the arrows' ends, and where it puts the ball.
DrawStatus(e) == [markers |-> {}, arrows |-> {}, ball |-> {}]
DrawPass(e) == [markers |-> {Marker(e)}, arrows |-> {Arrow(e)}, ball |-> {}]
DrawReceipt(e) == [markers |-> {Marker(e)}, arrows |-> {}, ball |-> {Placed(e.at, e.team)}]
DrawCarry(e) == [markers |-> {Marker(e)}, arrows |-> {}, ball |-> {Placed(e.at, e.team)}]
DrawPressure(e) == [markers |-> {Marker(e)}, arrows |-> {}, ball |-> {}]
DrawThrowIn(e) == [markers |-> {Marker(e)}, arrows |-> {Arrow(e)}, ball |-> {}]
DrawShot(e) == [markers |-> {Marker(e)}, arrows |-> {Arrow(e)}, ball |-> {Placed(e.at, e.team)}]
DrawFoul(e) == [markers |-> {[at |-> Placed(e.at, e.team), colour |-> "yellow"]}, arrows |-> {}, ball |-> {}]
\* In front of the marker.
DrawSave(e) ==
  LET p == Placed(e.at, e.team) IN [markers |-> {Marker(e)}, arrows |-> {}, ball |-> {<<p[1], p[2] - 2>>}]

\* renderEvent
Drawn(e) ==
  CASE e.kind \in {"match_start", "match_end", "first_half_end"} -> DrawStatus(e)
    [] e.kind \in {"pass", "free_kick_pass", "corner_pass"} -> DrawPass(e)
    [] e.kind \in {"ball_receipt", "ball_recovery"} -> DrawReceipt(e)
    [] e.kind \in {"carry", "interception", "block", "foul_won", "dribble"} -> DrawCarry(e)
    [] e.kind \in {"pressure", "duel"} -> DrawPressure(e)
    [] e.kind = "foul_committed" -> DrawFoul(e)
    [] e.kind = "throw_in_pass" -> DrawThrowIn(e)
    [] e.kind = "shot" -> DrawShot(e)
    [] e.kind = "save" -> DrawSave(e)
    [] OTHER -> [markers |-> {}, arrows |-> {}, ball |-> {}]

\* The places, in the order heard, of the events on the pitch.
OnPitch == LET last == LastOf(Relevant, ShownEvents) IN {last[Visible[j]] : j \in DOMAIN Visible}

PlotNext ==
  /\ On("plot")
  /\ \/ EventProduced \/ Reload \/ NextMatch
     \/ \E i \in DOMAIN Script, c \in Channels : EventArrives(i, c)

-----------------------------------------------------------------------------
\* Events come twice, late and out of order, and the page is reloaded: once it knows
\* the match's names from its first event, the scoreboard counts each goal heard
\* exactly once, on top of what the storage held when the page was opened
\* (EventPlotter.tsx:104 takes an earlier match's score along); the stored score is
\* the one shown unless match_start reset it; and no player is drawn after the
\* card that sent him off, nor anyone off the pitch.
ScoreCountsGoalsOnce ==
  On("plot") =>
    /\ (page.heard # <<>> /\ page.heard[1] = 1) =>
         /\ page.home = page.base[1] + Cardinality({i \in Goals(Names[1]) : Heard(i)})
         /\ page.away = page.base[2] + Cardinality({i \in Goals(Names[2]) : Heard(i)})
    /\ page.score \in {<<page.home, page.away>>, <<0, 0>>}
    /\ \A k \in OnPitch :
         LET e == Script[page.heard[k]]  d == Drawn(e) IN
           /\ e.player # None =>
                \A j \in 1 .. (k - 1) :
                  ~(Dismisses(Script[page.heard[j]]) /\ Script[page.heard[j]].player = e.player)
           /\ \A m \in d.markers : m.at[1] \in -60 .. 60 /\ m.at[2] \in -40 .. 40
           /\ \A b \in d.arrows \cup d.ball : b[1] \in -60 .. 60 /\ b[2] \in -42 .. 40
=============================================================================
