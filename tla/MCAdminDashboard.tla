--------------------------- MODULE MCAdminDashboard ---------------------------
EXTENDS AdminDashboard

MCPages == {Probe} \cup {Paginated(p, f) : p \in {1, 2}, f \in Filters}
MCKeys ==
  {AllTeams, Stadiums} \cup {Coaches(f) : f \in Filters} \cup {Seasons(f) : f \in Filters}
  \cup MCPages \cup {Regular(k) : k \in MCPages} \cup {Whole(f) : f \in Filters}

MCEntityOf ==
  [p \in {k[1] : k \in MCKeys} |->
     CASE p = "all-teams" -> "team" [] p = "coaches-filter" -> "coach"
       [] p = "seasons-filter" -> "season" [] p = "stadiums-all" -> "stadium"
       [] OTHER -> "player"]

MCVisits == <<{"team", "coach", "season", "stadium", "player"}, {"stadium"}>>
MCMaxGets == [e \in Entities |-> CASE e = "player" -> 4 [] e = "season" -> 2 [] OTHER -> 3]
=============================================================================
