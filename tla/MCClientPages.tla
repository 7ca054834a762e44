----------------------------- MODULE MCClientPages -----------------------------
EXTENDS ClientPages

MCVisits == <<{2}, {1}>>

MCClicks ==
  [notifications |-> 2, search |-> 3, live |-> 3, plot |-> 2, start |-> 6, register |-> 3, profile |-> 8,
   settings |-> 3, list |-> 4, thing |-> 4, match |-> 4, shop |-> 4, demo |-> 4, simulationview |-> 0]

\* A match in which a home player scores and is sent off, and the next, with the
\* sides changed and a keeper who saves.
Event(kind, team, time) ==
  [kind |-> kind, team |-> team, time |-> time, player |-> None, keeper |-> FALSE, at |-> <<60, 40>>,
   to |-> None, outcome |-> None, card |-> None, home |-> None, away |-> None]
MCScripts ==
  << << [Event("match_start", "SYSTEM", 0) EXCEPT !.home = "A", !.away = "B"],
        [Event("shot", "B", 1) EXCEPT !.player = "Bo", !.outcome = "Goal", !.at = <<100, 30>>, !.to = <<120, 40>>],
        [Event("foul_committed", "A", 2) EXCEPT !.player = "Ann", !.card = "Red Card", !.at = <<0, 80>>],
        [Event("pass", "A", 3) EXCEPT !.player = "Ann", !.at = <<10, 20>>, !.to = <<20, 30>>] >>,
     << [Event("match_start", "SYSTEM", 0) EXCEPT !.home = "B", !.away = "A"],
        [Event("save", "B", 1) EXCEPT !.player = "Keeper", !.keeper = TRUE, !.at = None],
        [Event("shot", "A", 2) EXCEPT !.player = "Ann", !.outcome = "Goal", !.at = <<100, 30>>, !.to = <<120, 40>>] >> >>

\* One search is enough to see the history kept or lost.
MCHistories == {<<>>, <<"ab">>}

MCSeasons == [t \in Teams |-> IF t = "A" THEN {1} ELSE {2}]

MCItems ==
  [teams |-> <<[name |-> "x", city |-> "y", league |-> "y"], [name |-> "y", city |-> "z", league |-> "y"]>>,
   players |-> <<[name |-> "x", position |-> "y", nationality |-> "z"],
                 [name |-> "y", position |-> "z", nationality |-> "x"]>>,
   coaches |-> <<[name |-> "x", nationality |-> "z", role |-> "y", style |-> "y"],
                 [name |-> "y", nationality |-> "y", role |-> "y", style |-> "z"]>>,
   stadiums |-> <<[name |-> "x", city |-> "y", country |-> "z", address |-> "y"],
                  [name |-> "y", city |-> "z", country |-> "z", address |-> "z"]>>,
   schedule |-> <<[home |-> "x", away |-> "y", stadium |-> "z", status |-> "completed", date |-> 1],
                  [home |-> "y", away |-> "z", stadium |-> "z", status |-> "live", date |-> 2]>>,
   latest |-> <<[live |-> TRUE, status |-> "live"], [live |-> FALSE, status |-> "completed"]>>,
   products |-> <<[name |-> "x", description |-> "y", category |-> "y", team |-> "z", price |-> 1, featured |-> TRUE],
                  [name |-> "y", description |-> "z", category |-> "z", team |-> "z", price |-> 2, featured |-> FALSE]>>]
MCThings == {<<"team", 1>>, <<"player", 1>>, <<"player", 2>>, <<"coach", 1>>, <<"stadium", 1>>}
=============================================================================
